---- MODULE Spec2Model ----
(***************************************************************************)
(* Document resolution and retrieval of Indian-Legal-Analytics             *)
(* (aws_utils.py): the case resolver get_case_metadata, the archive index  *)
(* resolver get_pdf_location and the orchestrator fetch_pdf_for_case.      *)
(*                                                                         *)
(* Text is modelled as sequences of one-character strings, so that strip,  *)
(* lower, replace, split, endswith, the year regex and the str.contains    *)
(* regex are computed character by character as Python computes them.      *)
(* Every network call (metadata, index, shard) is answered by the          *)
(* environment at the moment it is issued: aws_utils keeps no cache.       *)
(*                                                                         *)
(* The cache layer (cache_utils.py) is modelled on top: the three          *)
(* functions under st.cache_data with their ttl and a clock, the two       *)
(* functions under st.cache_resource, the worker pool that builds the      *)
(* combined dataset, and the Clear All Cache button of app.py.             *)
(***************************************************************************)
EXTENDS Integers, Sequences, FiniteSets, TLC

VARIABLES
    pc,            \* position of the running call
    op,            \* the top-level operation being executed
    args,          \* its arguments
    case_id_str,   \* get_case_metadata: the trimmed case_id
    years_to_try,  \* get_case_metadata: candidate years not yet tried
    candidates,    \* get_case_metadata: the candidate list as built (history)
    df,            \* get_case_metadata: the metadata fetched for the year on trial
    matcher,       \* get_case_metadata: which matcher produced the match
    case_meta,     \* result of get_case_metadata
    pdf_filename,  \* fetch_pdf_for_case: the filename looked up and extracted
    index,         \* the index payload last fetched
    tar_filename,  \* result of get_pdf_location
    tar_content,   \* fetch_pdf_for_case: the downloaded shard
    log,           \* network requests issued by the running call, in order
    ret,           \* value returned by the top-level operation
    raised,        \* TRUE when an exception escaped the top-level operation
    metadata_cache,  \* st.cache_data of get_metadata_for_year, by year
    index_cache,     \* st.cache_data of get_index_json_for_year, by (year, language)
    case_cache,      \* st.cache_data of get_case_details_cached, by (year, case_id)
    all_years,       \* st.cache_resource of get_all_years_metadata
    dataset,         \* st.cache_resource of get_processed_full_dataset
    computations,    \* runs of cached functions' bodies in the running call
    snapshot,        \* get_processed_full_dataset: what became of the local snapshot
    futures,         \* get_all_years_metadata: the future of each submitted year
    result           \* get_all_years_metadata: the dict under construction

\* the caches, which outlive a call
cacheVars == <<metadata_cache, index_cache, case_cache, all_years, dataset>>

\* the locals of the cache layer's functions
buildVars == <<computations, snapshot, futures, result>>

vars == <<pc, op, args, case_id_str, years_to_try, candidates, df, matcher,
          case_meta, pdf_filename, index, tar_filename, tar_content, log,
          ret, raised, cacheVars, buildVars>>

(***************************************************************************)
(* Bounds of the model.                                                    *)
(***************************************************************************)
\* longest case_id handed to the resolver, in tokens of CaseIdTokens
MaxTokens == 3
\* most rows in one year's metadata
MaxRows == 2
\* most shards in one index document
MaxShards == 2
\* most members in one archive
MaxMembers == 2
\* how many years of range(1950, 2026) the dataset build covers
MaxBuildYears == 2
\* longest judges string, in names and separators
MaxJudgeTokens == 5
\* longest judges list
MaxJudges == 2

(***************************************************************************)
(* Python text primitives.                                                 *)
(***************************************************************************)
Whitespace == {" ", "\t"}

Digit == {"0", "1", "2", "3", "4", "5", "6", "7", "8", "9"}

DigitVal(c) ==
    CASE c = "0" -> 0 [] c = "1" -> 1 [] c = "2" -> 2 [] c = "3" -> 3
      [] c = "4" -> 4 [] c = "5" -> 5 [] c = "6" -> 6 [] c = "7" -> 7
      [] c = "8" -> 8 [] c = "9" -> 9

DigitChar(d) == <<"0", "1", "2", "3", "4", "5", "6", "7", "8", "9">>[d + 1]

\* str.lower() on one character of the alphabet in use
LowerChar(c) ==
    CASE c = "I" -> "i" [] c = "X" -> "x" [] c = "E" -> "e" [] c = "N" -> "n"
      [] c = "A" -> "a" [] c = "B" -> "b" [] c = "C" -> "c" [] c = "D" -> "d"
      [] OTHER -> c

Letter == {"I", "i", "X", "x", "E", "e", "N", "n", "p", "d", "f"}

\* \w of the re module
IsWordChar(c) == c \in Digit \cup Letter \cup {"_"}

Lower(s) == [i \in 1..Len(s) |-> LowerChar(s[i])]

RECURSIVE LStrip(_)
LStrip(s) == IF s # <<>> /\ Head(s) \in Whitespace THEN LStrip(Tail(s)) ELSE s

RECURSIVE RStrip(_)
RStrip(s) ==
    IF s # <<>> /\ s[Len(s)] \in Whitespace
    THEN RStrip(SubSeq(s, 1, Len(s) - 1)) ELSE s

\* no trimming at all
Strip_NoTrim(s) == s

\* str.strip(): leading and trailing whitespace removed
Strip(s) == RStrip(LStrip(s))

\* str.replace(' ', ''): every space removed, other whitespace kept
RECURSIVE ReplaceSpaces(_)
ReplaceSpaces(s) ==
    IF s = <<>> THEN <<>>
    ELSE IF Head(s) = " " THEN ReplaceSpaces(Tail(s))
    ELSE <<Head(s)>> \o ReplaceSpaces(Tail(s))

EndsWith(s, p) ==
    Len(p) <= Len(s) /\ SubSeq(s, Len(s) - Len(p) + 1, Len(s)) = p

\* the Python test  p in s  on two strings
Contains(s, p) ==
    \E k \in 0..(Len(s) - Len(p)) : SubSeq(s, k + 1, k + Len(p)) = p

\* int() of a digit string
RECURSIVE ToInt(_)
ToInt(s) ==
    IF s = <<>> THEN 0
    ELSE 10 * ToInt(SubSeq(s, 1, Len(s) - 1)) + DigitVal(s[Len(s)])

\* str() of a natural number
RECURSIVE ToStr(_)
ToStr(n) ==
    IF n < 10 THEN <<DigitChar(n)>>
    ELSE ToStr(n \div 10) \o <<DigitChar(n % 10)>>

\* path.split('/')[0]: the first segment instead of the last
LastSegment_First(s) ==
    IF \E i \in 1..Len(s) : s[i] = "/"
    THEN SubSeq(s, 1, (CHOOSE i \in 1..Len(s) :
                        s[i] = "/" /\ \A j \in 1..(i - 1) : s[j] # "/") - 1)
    ELSE s

\* path.split('/')[-1] if '/' in path else path
RECURSIVE LastSegment(_)
LastSegment(s) ==
    IF \E i \in 1..Len(s) : s[i] = "/"
    THEN LastSegment(Tail(s))
    ELSE s

(***************************************************************************)
(* The two regular expressions of get_case_metadata.                       *)
(***************************************************************************)
\* \b at the gap before position i (1..Len(s)+1)
WordBoundary(s, i) ==
    LET before == i > 1 /\ IsWordChar(s[i - 1])
        after  == i <= Len(s) /\ IsWordChar(s[i])
    IN  before # after

\* r'\b(19|20)\d{2}\b' matches s[i..i+3]
YearTokenAt(s, i) ==
    /\ i + 3 <= Len(s)
    /\ <<s[i], s[i + 1]>> \in {<<"1", "9">>, <<"2", "0">>}
    /\ s[i + 2] \in Digit
    /\ s[i + 3] \in Digit
    /\ WordBoundary(s, i)
    /\ WordBoundary(s, i + 4)

\* re.search: the leftmost match, 0 when there is none
YearSearch(s) ==
    IF \E i \in 1..Len(s) : YearTokenAt(s, i)
    THEN CHOOSE i \in 1..Len(s) :
            YearTokenAt(s, i) /\ \A j \in 1..(i - 1) : ~YearTokenAt(s, j)
    ELSE 0

\* re.compile fails on a group that is opened and never closed
RegexRaises(p) ==
    \E i \in 1..Len(p) : p[i] = "(" /\ \A j \in (i + 1)..Len(p) : p[j] # ")"

\* one pattern character against one text character under re.IGNORECASE;
\* the pattern alphabet is literals, "." and "("
RegexCharMatches(pch, c) == pch = "." \/ LowerChar(pch) = LowerChar(c)

\* Series.str.contains(p, case=False): re.search of p as a regex
RegexContains(s, p) ==
    \E k \in 0..(Len(s) - Len(p)) :
        \A i \in 1..Len(p) : RegexCharMatches(p[i], s[k + i])

(***************************************************************************)
(* Values and inputs.                                                      *)
(***************************************************************************)
None == [kind |-> "none"]

\* an optional argument: absent (Python None) or a string
NoArg == [some |-> FALSE, val |-> <<>>]

Some(s) == [some |-> TRUE, val |-> s]

\* Python truthiness of an optional string: None and "" are both falsy
Truthy(o) == o.some /\ o.val # <<>>

\* literal 1950 of the range test in get_case_metadata
MinYear == 1950

\* literal 2025 of the range test in get_case_metadata
MaxYear == 2025

\* years the callers pass
Years == {2021, 2025}

T2025 == <<"2", "0", "2", "5">>

T1901 == <<"1", "9", "0", "1">>

\* pieces the case_id inputs are assembled from
CaseIdTokens == {T2025, T1901, <<" ">>, <<"I">>, <<".">>, <<"(">>}

RECURSIVE TokenStrings(_)
TokenStrings(n) ==
    IF n = 0 THEN {<<>>}
    ELSE LET shorter == TokenStrings(n - 1)
         IN  shorter \cup {s \o t : s \in shorter, t \in CaseIdTokens}

\* case_id arguments of get_case_metadata
CaseIds == TokenStrings(MaxTokens)

\* rows of a year's metadata: the case_id and path columns
Rows == {
    [case_id |-> T2025 \o <<" ", "I">>,        path |-> <<"X">>],
    [case_id |-> <<" ">> \o T2025 \o <<"i">>,  path |-> <<"d", "/", "X">>],
    [case_id |-> <<"I">> \o T2025 \o <<" ", "I", "x">>, path |-> <<>>],
    [case_id |-> T1901 \o <<" ">> \o T2025,    path |-> <<"X", ".", "p", "d", "f">>] }

RECURSIVE SeqsUpTo(_, _)
SeqsUpTo(S, n) ==
    IF n = 0 THEN {<<>>}
    ELSE LET shorter == SeqsUpTo(S, n - 1)
         IN  shorter \cup {Append(q, x) : q \in shorter, x \in S}

\* what fetch_metadata_parquet can return for one year: None (absent, non-2xx,
\* timeout, unreadable parquet), a frame without a case_id column, or a frame
\* with one
MetadataFrames ==
    {[kind |-> "frame", has_case_id |-> FALSE, rows |-> <<>>]}
    \cup {[kind |-> "frame", has_case_id |-> TRUE, rows |-> r] :
            r \in SeqsUpTo(Rows, MaxRows)}

MetadataPayloads == {None} \cup MetadataFrames

(***************************************************************************)
(* get_case_metadata (the case resolver).                                  *)
(***************************************************************************)
\* the test "not in years_to_try" is left out
CandidateYears_Duplicate(year, cid) ==
    LET at == YearSearch(cid)
        extracted_year == ToInt(SubSeq(cid, at, at + 3))
    IN  IF at # 0 /\ MinYear <= extracted_year /\ extracted_year <= MaxYear
        THEN <<extracted_year, year>>
        ELSE <<year>>

\* years_to_try as built before the loop: the caller's year, with the first
\* 19xx/20xx token of the case_id put in front when it is in range and new
CandidateYears(year, cid) ==
    LET at == YearSearch(cid)
        extracted_year == ToInt(SubSeq(cid, at, at + 3))
    IN  IF at # 0 /\ MinYear <= extracted_year /\ extracted_year <= MaxYear
           /\ extracted_year # year
        THEN <<extracted_year, year>>
        ELSE <<year>>

\* (a) the column stripped and lowered equals the query lowered
MatchesExact(cell, q) == Lower(Strip(cell)) = Lower(q)

\* (b) the column without spaces and lowered equals the query without spaces
MatchesNoSpaces(cell, q) == Lower(ReplaceSpaces(cell)) = Lower(ReplaceSpaces(q))

\* (c) str.contains(query, case=False): the query searched as a regex
MatchesContains(cell, q) == RegexContains(cell, q)

\* positions of the rows of a frame selected by matcher m
Selected(rows, q, m) ==
    {i \in 1..Len(rows) :
        CASE m = "a" -> MatchesExact(rows[i].case_id, q)
          [] m = "b" -> MatchesNoSpaces(rows[i].case_id, q)
          [] m = "c" -> MatchesContains(rows[i].case_id, q)}

Min(S) == CHOOSE x \in S : \A y \in S : x <= y

\* a year whose rows only contain the query is passed over
WinningMatcher_NoContains(rows, q) ==
    IF Selected(rows, q, "a") # {} THEN "a"
    ELSE IF Selected(rows, q, "b") # {} THEN "b"
    ELSE "none"

\* the matcher whose selection the loop body ends with: the first of a, b, c
\* that selects a row; "raise" when (c) is reached with an invalid regex;
\* "none" when all three select nothing
WinningMatcher(rows, q) ==
    IF Selected(rows, q, "a") # {} THEN "a"
    ELSE IF Selected(rows, q, "b") # {} THEN "b"
    ELSE IF RegexRaises(q) THEN "raise"
    ELSE IF Selected(rows, q, "c") # {} THEN "c"
    ELSE "none"

\* the projection returned on a match: matches.iloc[0] with the year
\* overwritten by the candidate year that matched
CaseRecord(row, actual_year) ==
    [kind |-> "record", case_id |-> row.case_id, path |-> row.path,
     year |-> actual_year]

(***************************************************************************)
(* The cache layer (cache_utils.py).  st.cache_data keeps one entry per    *)
(* argument tuple and drops it ttl seconds after it was stored;            *)
(* st.cache_resource keeps one entry per argument tuple until it is        *)
(* cleared.  An entry carries the seconds since it was stored, which stop  *)
(* counting at the ttl, where the entry is expired for good.               *)
(***************************************************************************)
\* @st.cache_data(ttl=3600) on get_metadata_for_year
MetadataTtl == 3600

\* @st.cache_data(ttl=7200) on get_index_json_for_year
IndexTtl == 7200

\* @st.cache_data(ttl=3600) on get_case_details_cached
CaseDetailsTtl == 3600

\* ThreadPoolExecutor(max_workers=10)
MaxWorkers == 10

\* the step of the clock: half the shortest ttl
TickSeconds == MetadataTtl \div 2

Absent == [kind |-> "absent"]

Entry(v, a) == [kind |-> "entry", value |-> v, age |-> a]

\* an entry that never expires
Resource(v) == [kind |-> "entry", value |-> v]

\* one slot for the whole function: the value is stored under every key
Store_SingleSlot(cache, key, v) == [k \in DOMAIN cache |-> Entry(v, 0)]

\* a function that returned None is not remembered
Store_SkipNone(cache, key, v) ==
    IF v = None THEN cache ELSE [cache EXCEPT ![key] = Entry(v, 0)]

\* the value a cached function computed is stored under its argument tuple
Store(cache, key, v) == [cache EXCEPT ![key] = Entry(v, 0)]

\* the lookup ignores the ttl: a stored entry is served for ever
Fresh_NoExpiry(e, ttl) == e.kind = "entry"

\* the lookup of st.cache_data: a stored entry younger than the ttl
Fresh(e, ttl) == e.kind = "entry" /\ e.age < ttl

\* an entry after TickSeconds more
Aged(e, ttl) ==
    IF e.kind = "entry" /\ e.age < ttl
    THEN [e EXCEPT !.age = IF e.age + TickSeconds < ttl THEN e.age + TickSeconds ELSE ttl]
    ELSE e

\* years = list(range(1950, 2026)), cut to its first MaxBuildYears years
BuildYears == MinYear..(MinYear + MaxBuildYears - 1)

\* the year and the case_ids of the direct reads through the cache
TtlYears == {2021}

TtlCaseIds == {<<"I">>, <<" ", "I">>}

Languages == {"english"}

CachedYears == BuildYears \cup TtlYears

\* a year's metadata as the dataset build sees it: the columns it
\* normalises and the number of rows; "of" is the year it was published for
DatasetFrame(year, cols, n) ==
    [kind |-> "frame", of |-> year, columns |-> cols, nrows |-> n]

\* what fetch_metadata_parquet(year) can return to the cache layer
DatasetPayloads(year) ==
    {None, DatasetFrame(year, {}, 1), DatasetFrame(year, {"title"}, 2)}

\* the future of a year: not submitted, queued, running, done (with the
\* value get_metadata_for_year returned) or collected by as_completed
NoFuture == [state |-> "none", value |-> None]

Idle ==
    /\ pc = "idle"
    /\ op = "none"

\* the state between two calls
Reset ==
    /\ pc' = "idle"
    /\ op' = "none"
    /\ args' = [year |-> 0, case_id |-> <<>>, pdf_path |-> NoArg,
                pdf_filename |-> <<>>, years |-> None,
               judges |-> None]
    /\ case_id_str' = <<>>
    /\ years_to_try' = <<>>
    /\ candidates' = <<>>
    /\ df' = None
    /\ matcher' = "none"
    /\ case_meta' = None
    /\ pdf_filename' = <<>>
    /\ index' = None
    /\ tar_filename' = None
    /\ tar_content' = None
    /\ log' = <<>>
    /\ ret' = None
    /\ raised' = FALSE
    /\ computations' = <<>>
    /\ snapshot' = "unchecked"
    /\ futures' = [y \in BuildYears |-> NoFuture]
    /\ result' = <<>>
    /\ UNCHANGED cacheVars

Init ==
    /\ pc = "idle"
    /\ op = "none"
    /\ args = [year |-> 0, case_id |-> <<>>, pdf_path |-> NoArg,
               pdf_filename |-> <<>>, years |-> None,
               judges |-> None]
    /\ case_id_str = <<>>
    /\ years_to_try = <<>>
    /\ candidates = <<>>
    /\ df = None
    /\ matcher = "none"
    /\ case_meta = None
    /\ pdf_filename = <<>>
    /\ index = None
    /\ tar_filename = None
    /\ tar_content = None
    /\ log = <<>>
    /\ ret = None
    /\ raised = FALSE
    /\ metadata_cache = [y \in CachedYears |-> Absent]
    /\ index_cache = [k \in TtlYears \X Languages |-> Absent]
    /\ case_cache = [k \in TtlYears \X TtlCaseIds |-> Absent]
    /\ all_years = Absent
    /\ dataset = Absent
    /\ computations = <<>>
    /\ snapshot = "unchecked"
    /\ futures = [y \in BuildYears |-> NoFuture]
    /\ result = <<>>

\* a caller invokes get_case_metadata(year, case_id)
CallGetCaseMetadata ==
    /\ Idle
    /\ \E year \in Years, case_id \in CaseIds :
        /\ op' = "get_case_metadata"
        /\ args' = [args EXCEPT !.year = year, !.case_id = case_id]
    /\ pc' = "gcm_start"
    /\ UNCHANGED <<cacheVars, buildVars>>
    /\ UNCHANGED <<case_id_str, years_to_try, candidates, df, matcher,
                   case_meta, pdf_filename, index, tar_filename, tar_content,
                   log, ret, raised>>

\* the answers of the metadata request to a resolution that runs under
\* get_case_details_cached: nothing, or one frame with one matching row
TtlMetadataPayloads ==
    {None} \cup {f \in MetadataFrames :
                    /\ f.has_case_id
                    /\ Len(f.rows) = 1
                    /\ f.rows[1].path = <<"X">>}

MetadataAnswers(o) ==
    IF o = "get_case_details_cached" THEN TtlMetadataPayloads ELSE MetadataPayloads

\* get_case_metadata hands r to its caller
GcmReturn(r) ==
    /\ case_meta' = r
    /\ CASE op = "get_case_metadata" -> pc' = "done" /\ ret' = r
         [] op = "get_case_details_cached" -> pc' = "cd_store" /\ ret' = ret
         [] OTHER -> pc' = "fp_resolved" /\ ret' = ret

\* lines 157-168: trim, the empty test, the candidate years
GcmStart ==
    /\ pc = "gcm_start"
    /\ case_id_str' = Strip(args.case_id)
    /\ IF case_id_str' = <<>>
       THEN /\ GcmReturn(None)
            /\ UNCHANGED <<years_to_try, candidates>>
       ELSE /\ years_to_try' = CandidateYears(args.year, case_id_str')
            /\ candidates' = years_to_try'
            /\ pc' = "gcm_loop"
            /\ UNCHANGED <<case_meta, ret>>
    /\ UNCHANGED <<cacheVars, buildVars>>
    /\ UNCHANGED <<op, args, df, matcher, pdf_filename, index, tar_filename,
                   tar_content, log, raised>>

\* lines 170-188: one iteration of the loop over years_to_try: the fetch of
\* the year's metadata and the three matchers
GcmTryYear ==
    /\ pc = "gcm_loop"
    /\ years_to_try # <<>>
    /\ \E payload \in MetadataAnswers(op) :
        LET try_year == Head(years_to_try)
            skip == payload = None \/ ~payload.has_case_id
            m == IF skip THEN "none"
                 ELSE WinningMatcher(payload.rows, case_id_str)
        IN  /\ df' = payload
            /\ log' = Append(log, [kind |-> "metadata", year |-> try_year,
                                    outcome |-> IF skip THEN "skipped" ELSE m])
            /\ matcher' = m
            /\ years_to_try' = Tail(years_to_try)
            /\ CASE m = "none" ->
                        /\ pc' = "gcm_loop"
                        /\ UNCHANGED <<case_meta, ret, raised>>
                 [] m = "raise" ->
                        /\ pc' = "done"
                        /\ raised' = TRUE
                        /\ UNCHANGED <<case_meta, ret>>
                 [] OTHER ->
                        /\ GcmReturn(CaseRecord(
                              payload.rows[Min(Selected(payload.rows,
                                                       case_id_str, m))],
                              try_year))
                        /\ UNCHANGED raised
    /\ UNCHANGED <<cacheVars, buildVars>>
    /\ UNCHANGED <<op, args, case_id_str, candidates, pdf_filename, index,
                   tar_filename, tar_content>>

\* lines 189-190: the loop ran out of candidates
GcmExhausted ==
    /\ pc = "gcm_loop"
    /\ years_to_try = <<>>
    /\ GcmReturn(None)
    /\ UNCHANGED <<cacheVars, buildVars>>
    /\ UNCHANGED <<op, args, case_id_str, years_to_try, candidates, df,
                   matcher, pdf_filename, index, tar_filename, tar_content,
                   log, raised>>

\* the caller takes the result (or the exception); the next call may start
Return ==
    /\ pc = "done"
    /\ Reset

NextResolve ==
    \/ CallGetCaseMetadata
    \/ GcmStart
    \/ GcmTryYear
    \/ GcmExhausted
    \/ Return

SpecResolve == Init /\ [][NextResolve]_vars

(***************************************************************************)
(* The index document of one (year, language) and get_pdf_location.        *)
(* A JSON object is a sequence of key/value items in document order.       *)
(***************************************************************************)
ShardNames == {"data.tar", "data-part-1.tar"}

Name(n) == [kind |-> "name", name |-> n]

DotPdf == <<".", "p", "d", "f">>

EnPdf == <<"_", "E", "N", ".", "p", "d", "f">>

\* f"{year}/{filename}"
YearPrefixed(year, filename) == ToStr(year) \o <<"/">> \o filename

\* entries that occur in the file lists of the index documents
Files == {YearPrefixed(2021, <<"X">> \o EnPdf),
          YearPrefixed(2021, <<"X">> \o DotPdf),
          <<"X">> \o EnPdf}

\* file lists of a shard; only membership is ever tested on them
FileLists == {{}} \cup {{f} : f \in Files} \cup {Files}

\* values of a top-level key that names a shard: a list of files, or
\* something that is not a list (incidental metadata)
ShardValues == {[t |-> "files", files |-> fl] : fl \in FileLists}
               \cup {[t |-> "scalar"]}

\* one descriptor of the V2 "parts" list; part.get("name") is None when the
\* name is missing
Parts == {[name |-> n, files |-> fl] :
            n \in {Name(x) : x \in ShardNames} \cup {None}, fl \in FileLists}

PartsValues == {[t |-> "parts", parts |-> ps] : ps \in SeqsUpTo(Parts, MaxShards)}

Keys(items) == {items[i].key : i \in 1..Len(items)}

\* V1 documents: up to MaxShards shard keys
V1Objects ==
    {[kind |-> "object", items |-> it] :
        it \in {q \in SeqsUpTo([key : ShardNames, value : ShardValues], MaxShards) :
                    Cardinality(Keys(q)) = Len(q)}}

\* documents with a "parts" key: V2 proper (optionally with one more
\* top-level key in front), and a "parts" key that holds no descriptors
PartsObjects ==
    {[kind |-> "object", items |-> <<[key |-> "parts", value |-> v]>>] :
        v \in PartsValues \cup ShardValues}
    \cup {[kind |-> "object",
           items |-> <<[key |-> k, value |-> sv], [key |-> "parts", value |-> v]>>] :
            k \in ShardNames, sv \in ShardValues, v \in PartsValues}

\* what the index request can yield: None (absent, non-2xx, timeout, invalid
\* JSON), a JSON array, or a JSON object
IndexPayloads ==
    {None}
    \cup {[kind |-> "array", empty |-> e] : e \in BOOLEAN}
    \cup V1Objects \cup PartsObjects

HasKey(obj, k) == \E i \in 1..Len(obj.items) : obj.items[i].key = k

Get(obj, k) == obj.items[CHOOSE i \in 1..Len(obj.items) : obj.items[i].key = k].value

\* the printing block of fetch_index_json raises inside its try when the
\* value under "parts" has no len() or its leading elements are no dicts
IndexLoggingRaises(payload) ==
    /\ payload.kind = "object"
    /\ HasKey(payload, "parts")
    /\ LET v == Get(payload, "parts")
       IN  \/ v.t = "scalar"
           \/ v.t = "files" /\ v.files # {}

\* fetch_index_json: the payload, or None when anything in the try raised
FetchIndexJson(payload) ==
    IF payload = None \/ IndexLoggingRaises(payload) THEN None ELSE payload

\* Python truthiness of an index value
IndexTruthy(idx) ==
    CASE idx.kind = "none" -> FALSE
      [] idx.kind = "array" -> ~idx.empty
      [] idx.kind = "object" -> idx.items # <<>>

\* is_file_in_list without its last spelling, the year-prefixed _EN.pdf
IsFileInList_NoYearEn(year, filename, file_list) ==
    \/ filename \in file_list
    \/ filename \o DotPdf \in file_list
    \/ filename \o EnPdf \in file_list
    \/ YearPrefixed(year, filename) \in file_list
    \/ YearPrefixed(year, filename \o DotPdf) \in file_list

\* is_file_in_list: the six spellings tried on a file list
IsFileInList(year, filename, file_list) ==
    \/ filename \in file_list
    \/ filename \o DotPdf \in file_list
    \/ filename \o EnPdf \in file_list
    \/ YearPrefixed(year, filename) \in file_list
    \/ YearPrefixed(year, filename \o DotPdf) \in file_list
    \/ YearPrefixed(year, filename \o EnPdf) \in file_list

\* the files a value contributes to a membership test: a list of descriptors
\* holds no string
FilesOf(value) == IF value.t = "files" THEN value.files ELSE {}

Max(S) == CHOOSE x \in S : \A y \in S : x >= y

\* the V2 loop without its early return: the last matching part wins
LocateV2_LastHit(year, filename, parts) ==
    LET hits == {i \in 1..Len(parts) : IsFileInList(year, filename, parts[i].files)}
    IN  IF hits = {} THEN None ELSE parts[Max(hits)].name

\* a matching part without a name is passed over
LocateV2_SkipsUnnamed(year, filename, parts) ==
    LET hits == {i \in 1..Len(parts) :
                    /\ IsFileInList(year, filename, parts[i].files)
                    /\ parts[i].name # None}
    IN  IF hits = {} THEN None ELSE parts[Min(hits)].name

\* lines 101-106: the first part whose files match gives its name
LocateV2(year, filename, parts) ==
    LET hits == {i \in 1..Len(parts) : IsFileInList(year, filename, parts[i].files)}
    IN  IF hits = {} THEN None ELSE parts[Min(hits)].name

\* the V1 loop without its early return: the last matching key wins
LocateV1_LastHit(year, filename, items) ==
    LET hits == {i \in 1..Len(items) :
                    /\ items[i].value.t # "scalar"
                    /\ IsFileInList(year, filename, FilesOf(items[i].value))}
    IN  IF hits = {} THEN None ELSE Name(items[Max(hits)].key)

\* lines 109-114: the first key with a list value whose files match
LocateV1(year, filename, items) ==
    LET hits == {i \in 1..Len(items) :
                    /\ items[i].value.t # "scalar"
                    /\ IsFileInList(year, filename, FilesOf(items[i].value))}
    IN  IF hits = {} THEN None ELSE Name(items[Min(hits)].key)

\* get_pdf_location on the index that fetch_index_json returned
GetPdfLocation(year, filename, idx) ==
    IF ~IndexTruthy(idx) THEN None
    ELSE IF idx.kind = "object" /\ HasKey(idx, "parts")
         THEN LET v == Get(idx, "parts")
              IN  IF v.t = "parts" THEN LocateV2(year, filename, v.parts)
                  ELSE None
    ELSE IF idx.kind = "object" THEN LocateV1(year, filename, idx.items)
    ELSE None

\* filename arguments of get_pdf_location
FileNameArgs == {<<"X">>, <<"X">> \o DotPdf, <<"X">> \o EnPdf,
                 YearPrefixed(2021, <<"X">>)}

\* a caller invokes get_pdf_location(year, pdf_filename)
CallGetPdfLocation ==
    /\ Idle
    /\ \E year \in Years, filename \in FileNameArgs :
        /\ op' = "get_pdf_location"
        /\ args' = [args EXCEPT !.year = year, !.pdf_filename = filename]
    /\ pc' = "gpl"
    /\ UNCHANGED <<cacheVars, buildVars>>
    /\ UNCHANGED <<case_id_str, years_to_try, candidates, df, matcher,
                   case_meta, pdf_filename, index, tar_filename, tar_content,
                   log, ret, raised>>

\* lines 74-116: the index request and the search through the shards
GplLocate ==
    /\ pc = "gpl"
    /\ \E payload \in IndexPayloads :
        /\ index' = FetchIndexJson(payload)
        /\ tar_filename' = GetPdfLocation(args.year, args.pdf_filename, index')
    /\ log' = Append(log, [kind |-> "index", year |-> args.year])
    /\ ret' = tar_filename'
    /\ pc' = "done"
    /\ UNCHANGED <<cacheVars, buildVars>>
    /\ UNCHANGED <<op, args, case_id_str, years_to_try, candidates, df,
                   matcher, case_meta, pdf_filename, tar_content, raised>>

NextLocate ==
    \/ CallGetPdfLocation
    \/ GplLocate
    \/ Return

SpecLocate == Init /\ [][NextLocate]_vars

(***************************************************************************)
(* Shards and fetch_pdf_for_case (the orchestrator).                       *)
(***************************************************************************)
\* entries of an archive: a regular file, a directory (extractfile gives
\* None) or an entry whose data cannot be read (extractfile or read raises)
Members == {
    [name |-> <<"X">> \o EnPdf,     entry |-> "file"],
    [name |-> <<"X">> \o EnPdf,     entry |-> "dir"],
    [name |-> <<"X">> \o EnPdf,     entry |-> "broken"],
    [name |-> <<"d", "/", "X">>,    entry |-> "file"],
    [name |-> <<"Z">> \o DotPdf,    entry |-> "file"] }

\* what download_tar_file can return: None (non-2xx, timeout), no bytes at
\* all, bytes that are no archive, or an archive
TarPayloads ==
    {None, [kind |-> "empty"], [kind |-> "corrupt"]}
    \cup {[kind |-> "archive", members |-> m] : m \in SeqsUpTo(Members, MaxMembers)}

\* lines 332-342: the test applied to each member name
MemberMatches(member_name, filename) ==
    LET has_key == \E i \in 1..Len(filename) : filename[i] = "/"
    IN  \/ EndsWith(member_name, filename)
        \/ has_key /\ Contains(member_name, filename)
        \/ EndsWith(member_name, filename \o DotPdf)
        \/ EndsWith(member_name, filename \o EnPdf)
        \/ has_key /\ Contains(member_name, filename \o DotPdf)
        \/ has_key /\ Contains(member_name, filename \o EnPdf)

Bytes(member_name, position) ==
    [kind |-> "bytes", of |-> member_name, member |-> position]

\* lines 327-361: members scanned in archive order; the first matching
\* member that extracts is returned; an exception ends the scan with None
RECURSIVE ScanMembers(_, _, _)
ScanMembers(members, filename, i) ==
    IF i > Len(members) THEN None
    ELSE IF ~MemberMatches(members[i].name, filename)
         THEN ScanMembers(members, filename, i + 1)
    ELSE IF members[i].entry = "file" THEN Bytes(members[i].name, i)
    ELSE IF members[i].entry = "broken" THEN None
    ELSE ScanMembers(members, filename, i + 1)

\* the same scan with no try around it: what cannot be opened or read raises
ExtractPdf_NoTry(content, filename) ==
    IF content.kind # "archive" THEN [kind |-> "raise"]
    ELSE IF \E i \in 1..Len(content.members) :
                /\ content.members[i].entry = "broken"
                /\ MemberMatches(content.members[i].name, filename)
                /\ ScanMembers(content.members, filename, 1) = None
         THEN [kind |-> "raise"]
    ELSE ScanMembers(content.members, filename, 1)

\* lines 327-361 as a whole: bytes, or None (also for bytes that are no
\* archive: tarfile.open raises inside the try)
ExtractPdf(content, filename) ==
    IF content.kind = "archive" THEN ScanMembers(content.members, filename, 1)
    ELSE None

\* lines 300-311: the inspection printed after a failed lookup reads
\* index.keys() on whatever truthy value is not a dict with "parts"
DiagnosticRaises(idx) == IndexTruthy(idx) /\ idx.kind # "object"

\* case_id arguments of fetch_pdf_for_case
FetchCaseIds == {T2025 \o <<" ", "I">>, <<"I">>, <<" ">>, <<"(">>}

\* pdf_path arguments of fetch_pdf_for_case
FetchPaths == {NoArg, Some(<<>>), Some(<<"X">>), Some(<<"d", "/", "X">>),
               Some(<<"Z">> \o DotPdf)}

\* index documents answered to fetch_pdf_for_case: those of at most one shard
FetchIndexPayloads ==
    {p \in IndexPayloads :
        p.kind = "object" =>
            /\ Len(p.items) <= 1
            /\ \A i \in 1..Len(p.items) :
                p.items[i].value.t = "parts" => Len(p.items[i].value.parts) <= 1}

\* a caller invokes fetch_pdf_for_case(year, case_id, pdf_path=...)
CallFetchPdfForCase ==
    /\ Idle
    /\ \E year \in Years, case_id \in FetchCaseIds, pdf_path \in FetchPaths :
        /\ op' = "fetch_pdf_for_case"
        /\ args' = [args EXCEPT !.year = year, !.case_id = case_id,
                                !.pdf_path = pdf_path]
    /\ pc' = "fp_start"
    /\ UNCHANGED <<cacheVars, buildVars>>
    /\ UNCHANGED <<case_id_str, years_to_try, candidates, df, matcher,
                   case_meta, pdf_filename, index, tar_filename, tar_content,
                   log, ret, raised>>

\* lines 276-281: a truthy pdf_path is used as it is, otherwise the case is
\* resolved
FpStart ==
    /\ pc = "fp_start"
    /\ IF Truthy(args.pdf_path)
       THEN /\ pdf_filename' = LastSegment(args.pdf_path.val)
            /\ pc' = "fp_locate"
       ELSE /\ pc' = "gcm_start"
            /\ UNCHANGED pdf_filename
    /\ UNCHANGED <<cacheVars, buildVars>>
    /\ UNCHANGED <<op, args, case_id_str, years_to_try, candidates, df,
                   matcher, case_meta, index, tar_filename, tar_content, log,
                   ret, raised>>

\* lines 282-288: no record or no path ends the call
FpResolved ==
    /\ pc = "fp_resolved"
    /\ IF case_meta = None \/ case_meta.path = <<>>
       THEN /\ ret' = None
            /\ pc' = "done"
            /\ UNCHANGED pdf_filename
       ELSE /\ pdf_filename' = LastSegment(case_meta.path)
            /\ pc' = "fp_locate"
            /\ UNCHANGED ret
    /\ UNCHANGED <<cacheVars, buildVars>>
    /\ UNCHANGED <<op, args, case_id_str, years_to_try, candidates, df,
                   matcher, case_meta, index, tar_filename, tar_content, log,
                   raised>>

\* the year of the record the resolver returned is looked up instead
LookupYear_Resolved(year, meta) ==
    IF meta.kind = "record" THEN meta.year ELSE year

\* lines 253, 290, 298, 316, 319: the index and the shard are those of the
\* year parameter, whatever year the record carries
LookupYear(year, meta) == year

\* lines 290-291: get_pdf_location for the year of the call
FpLocate ==
    /\ pc = "fp_locate"
    /\ op = "fetch_pdf_for_case"
    /\ \E payload \in FetchIndexPayloads :
        /\ index' = FetchIndexJson(payload)
        /\ tar_filename' = GetPdfLocation(LookupYear(args.year, case_meta), pdf_filename,
                                        index')
    /\ log' = Append(log, [kind |-> "index", year |-> LookupYear(args.year, case_meta)])
    /\ pc' = IF tar_filename' = None THEN "fp_diagnose" ELSE "fp_download"
    /\ UNCHANGED <<cacheVars, buildVars>>
    /\ UNCHANGED <<op, args, case_id_str, years_to_try, candidates, df,
                   matcher, case_meta, pdf_filename, tar_content, ret, raised>>

\* lines 292-312: the index is requested again and inspected, then None
FpDiagnose ==
    /\ pc = "fp_diagnose"
    /\ \E payload \in FetchIndexPayloads :
        /\ index' = FetchIndexJson(payload)
        /\ raised' = DiagnosticRaises(index')
    /\ log' = Append(log, [kind |-> "index", year |-> LookupYear(args.year, case_meta)])
    /\ ret' = None
    /\ pc' = "done"
    /\ UNCHANGED <<cacheVars, buildVars>>
    /\ UNCHANGED <<op, args, case_id_str, years_to_try, candidates, df,
                   matcher, case_meta, pdf_filename, tar_filename, tar_content>>

\* lines 319-322: download_tar_file; no content ends the call
FpDownload ==
    /\ pc = "fp_download"
    /\ \E content \in TarPayloads :
        /\ tar_content' = content
        /\ IF content.kind \in {"none", "empty"}
           THEN pc' = "done"
           ELSE pc' = "fp_extract"
    /\ log' = Append(log, [kind |-> "tar",
                           year |-> LookupYear(args.year, case_meta),
                           name |-> tar_filename.name])
    /\ UNCHANGED <<cacheVars, buildVars>>
    /\ UNCHANGED <<op, args, case_id_str, years_to_try, candidates, df,
                   matcher, case_meta, pdf_filename, index, tar_filename,
                   ret, raised>>

\* lines 327-361: the archive is opened and scanned inside a try
FpExtract ==
    /\ pc = "fp_extract"
    /\ LET extracted == ExtractPdf(tar_content, pdf_filename)
       IN  /\ raised' = (extracted.kind = "raise")
           /\ ret' = IF extracted.kind = "raise" THEN None ELSE extracted
    /\ pc' = "done"
    /\ UNCHANGED <<cacheVars, buildVars>>
    /\ UNCHANGED <<op, args, case_id_str, years_to_try, candidates, df,
                   matcher, case_meta, pdf_filename, index, tar_filename,
                   tar_content, log>>

\* lines 140-141: the test extract_pdf_from_tar applies to each member name
BasicMatches(member_name, filename) ==
    LET has_key == \E i \in 1..Len(filename) : filename[i] = "/"
    IN  \/ EndsWith(member_name, filename)
        \/ has_key /\ Contains(member_name, filename)

\* lines 139-145: the scan of extract_pdf_from_tar
RECURSIVE ScanBasic(_, _, _)
ScanBasic(members, filename, i) ==
    IF i > Len(members) THEN None
    ELSE IF ~BasicMatches(members[i].name, filename)
         THEN ScanBasic(members, filename, i + 1)
    ELSE IF members[i].entry = "file" THEN Bytes(members[i].name, i)
    ELSE IF members[i].entry = "broken" THEN None
    ELSE ScanBasic(members, filename, i + 1)

\* lines 132-149 as a whole
ExtractPdfFromTar(content, filename) ==
    IF content.kind = "archive" THEN ScanBasic(content.members, filename, 1)
    ELSE None

\* a caller invokes extract_pdf_from_tar(tar_content, pdf_filename)
CallExtractPdfFromTar ==
    /\ Idle
    /\ \E content \in TarPayloads \ {None},
          filename \in {<<"X">>, <<"d", "/", "X">>, <<"d", "/">>, <<"Z">> \o DotPdf} :
        /\ op' = "extract_pdf_from_tar"
        /\ args' = [args EXCEPT !.pdf_filename = filename]
        /\ pdf_filename' = filename
        /\ tar_content' = content
        /\ ret' = ExtractPdfFromTar(content, filename)
    /\ pc' = "done"
    /\ UNCHANGED <<cacheVars, buildVars>>
    /\ UNCHANGED <<case_id_str, years_to_try, candidates, df, matcher,
                   case_meta, index, tar_filename, log, raised>>

\* a caller asks for the address of the shard of a case
CallGetPdfUrl ==
    /\ Idle
    /\ \E year \in Years, case_id \in FetchCaseIds :
        /\ op' = "get_pdf_url"
        /\ args' = [args EXCEPT !.year = year, !.case_id = case_id]
    /\ pc' = "gcm_start"
    /\ UNCHANGED <<cacheVars, buildVars>>
    /\ UNCHANGED <<case_id_str, years_to_try, candidates, df, matcher,
                   case_meta, pdf_filename, index, tar_filename, tar_content,
                   log, ret, raised>>

\* lines 254-260: get_pdf_location for the year of the call, then the url
PuLocate ==
    /\ pc = "fp_locate"
    /\ op = "get_pdf_url"
    /\ \E payload \in FetchIndexPayloads :
        /\ index' = FetchIndexJson(payload)
        /\ tar_filename' = GetPdfLocation(LookupYear(args.year, case_meta),
                                          pdf_filename, index')
    /\ log' = Append(log, [kind |-> "index",
                           year |-> LookupYear(args.year, case_meta)])
    /\ ret' = IF tar_filename' = None THEN None
              ELSE [kind |-> "url", year |-> LookupYear(args.year, case_meta),
                    name |-> tar_filename'.name]
    /\ pc' = "done"
    /\ UNCHANGED <<cacheVars, buildVars>>
    /\ UNCHANGED <<op, args, case_id_str, years_to_try, candidates, df,
                   matcher, case_meta, pdf_filename, tar_content, raised>>

NextFetch ==
    \/ CallFetchPdfForCase
    \/ CallExtractPdfFromTar
    \/ CallGetPdfUrl
    \/ PuLocate
    \/ FpStart
    \/ GcmStart
    \/ GcmTryYear
    \/ GcmExhausted
    \/ FpResolved
    \/ FpLocate
    \/ FpDiagnose
    \/ FpDownload
    \/ FpExtract
    \/ Return

SpecFetch == Init /\ [][NextFetch]_vars

(***************************************************************************)
(* The three functions under st.cache_data, the clock and the Clear All    *)
(* Cache button.                                                           *)
(***************************************************************************)
\* a run of the body of a cached function
Computation(fn, key) == [fn |-> fn, key |-> key]

\* the index documents get_index_json_for_year is answered with
TtlIndexPayloads ==
    {None,
     [kind |-> "object",
      items |-> <<[key |-> "data.tar", value |-> [t |-> "files", files |-> Files]]>>]}

\* cache_utils.py lines 6-13: get_metadata_for_year(year) from a script run
GetMetadataForYear ==
    /\ Idle
    /\ \E year \in TtlYears :
        /\ op' = "get_metadata_for_year"
        /\ args' = [args EXCEPT !.year = year]
        /\ IF Fresh(metadata_cache[year], MetadataTtl)
           THEN /\ ret' = metadata_cache[year].value
                /\ UNCHANGED <<metadata_cache, log, computations>>
           ELSE \E payload \in DatasetPayloads(year) :
                /\ log' = Append(log, [kind |-> "metadata", year |-> year,
                                        outcome |-> "fetched"])
                /\ computations' = Append(computations,
                                          Computation("get_metadata_for_year", year))
                /\ metadata_cache' = Store(metadata_cache, year, payload)
                /\ ret' = payload
    /\ pc' = "done"
    /\ UNCHANGED <<case_id_str, years_to_try, candidates, df, matcher, case_meta,
                   pdf_filename, index, tar_filename, tar_content, raised,
                   index_cache, case_cache, all_years, dataset, snapshot,
                   futures, result>>

\* cache_utils.py lines 15-22: get_index_json_for_year(year, language)
GetIndexJsonForYear ==
    /\ Idle
    /\ \E year \in TtlYears, language \in Languages :
        LET key == <<year, language>>
        IN  /\ op' = "get_index_json_for_year"
            /\ args' = [args EXCEPT !.year = year]
            /\ IF Fresh(index_cache[key], IndexTtl)
               THEN /\ ret' = index_cache[key].value
                    /\ UNCHANGED <<index_cache, index, log, computations>>
               ELSE \E payload \in TtlIndexPayloads :
                    /\ index' = FetchIndexJson(payload)
                    /\ log' = Append(log, [kind |-> "index", year |-> year])
                    /\ computations' = Append(computations,
                                              Computation("get_index_json_for_year", key))
                    /\ index_cache' = Store(index_cache, key, index')
                    /\ ret' = index'
    /\ pc' = "done"
    /\ UNCHANGED <<case_id_str, years_to_try, candidates, df, matcher, case_meta,
                   pdf_filename, tar_filename, tar_content, raised,
                   metadata_cache, case_cache, all_years, dataset, snapshot,
                   futures, result>>

\* the key of an entry of get_case_details_cached under the case_id that
\* get_case_metadata would look for
CaseKey_Trimmed(year, case_id) ==
    LET trimmed == {c \in TtlCaseIds : c = Strip(case_id)}
    IN  IF trimmed = {} THEN <<year, case_id>> ELSE <<year, CHOOSE c \in trimmed : TRUE>>

\* the key of an entry of get_case_details_cached: its arguments as passed
CaseKey(year, case_id) == <<year, case_id>>

\* cache_utils.py lines 24-31: get_case_details_cached(year, case_id) is
\* answered from its entry, or runs get_case_metadata
CallGetCaseDetailsCached ==
    /\ Idle
    /\ \E year \in TtlYears, case_id \in TtlCaseIds :
        LET key == CaseKey(year, case_id)
        IN  /\ op' = "get_case_details_cached"
            /\ args' = [args EXCEPT !.year = year, !.case_id = case_id]
            /\ IF Fresh(case_cache[key], CaseDetailsTtl)
               THEN /\ ret' = case_cache[key].value
                    /\ pc' = "done"
                    /\ UNCHANGED computations
               ELSE /\ computations' = Append(computations,
                                              Computation("get_case_details_cached", key))
                    /\ pc' = "gcm_start"
                    /\ UNCHANGED ret
    /\ UNCHANGED <<case_id_str, years_to_try, candidates, df, matcher, case_meta,
                   pdf_filename, index, tar_filename, tar_content, log, raised,
                   cacheVars, snapshot, futures, result>>

\* the value get_case_metadata returned is stored and handed to the caller
CdStore ==
    /\ pc = "cd_store"
    /\ case_cache' = Store(case_cache, CaseKey(args.year, args.case_id), case_meta)
    /\ ret' = case_meta
    /\ pc' = "done"
    /\ UNCHANGED <<op, args, case_id_str, years_to_try, candidates, df, matcher,
                   case_meta, pdf_filename, index, tar_filename, tar_content,
                   log, raised, metadata_cache, index_cache, all_years, dataset,
                   buildVars>>

\* TickSeconds pass between two calls
Tick ==
    /\ Idle
    /\ metadata_cache' = [y \in CachedYears |-> Aged(metadata_cache[y], MetadataTtl)]
    /\ index_cache' = [k \in DOMAIN index_cache |-> Aged(index_cache[k], IndexTtl)]
    /\ case_cache' = [k \in DOMAIN case_cache |-> Aged(case_cache[k], CaseDetailsTtl)]
    /\ UNCHANGED <<pc, op, args, case_id_str, years_to_try, candidates, df,
                   matcher, case_meta, pdf_filename, index, tar_filename,
                   tar_content, log, ret, raised, all_years, dataset, buildVars>>

\* only st.cache_data.clear() is called
ClearAll_DataOnly ==
    /\ Idle
    /\ metadata_cache' = [y \in CachedYears |-> Absent]
    /\ index_cache' = [k \in DOMAIN index_cache |-> Absent]
    /\ case_cache' = [k \in DOMAIN case_cache |-> Absent]
    /\ op' = "clear_all"
    /\ pc' = "done"
    /\ UNCHANGED <<args, case_id_str, years_to_try, candidates, df,
                   matcher, case_meta, pdf_filename, index, tar_filename,
                   tar_content, log, ret, raised, all_years, dataset, buildVars>>

\* app.py lines 94-98: the Clear All Cache button clears every
\* st.cache_data function and every st.cache_resource function, then the
\* script is run again
ClearAll ==
    /\ Idle
    /\ metadata_cache' = [y \in CachedYears |-> Absent]
    /\ index_cache' = [k \in DOMAIN index_cache |-> Absent]
    /\ case_cache' = [k \in DOMAIN case_cache |-> Absent]
    /\ all_years' = Absent
    /\ dataset' = Absent
    /\ op' = "clear_all"
    /\ pc' = "done"
    /\ UNCHANGED <<args, case_id_str, years_to_try, candidates, df,
                   matcher, case_meta, pdf_filename, index, tar_filename,
                   tar_content, log, ret, raised, buildVars>>

NextTtl ==
    \/ GetMetadataForYear
    \/ GetIndexJsonForYear
    \/ CallGetCaseDetailsCached
    \/ GcmStart
    \/ GcmTryYear
    \/ GcmExhausted
    \/ CdStore
    \/ Tick
    \/ ClearAll
    \/ Return

SpecTtl == Init /\ [][NextTtl]_vars

(***************************************************************************)
(* The combined dataset (cache_utils.py lines 33-120):                     *)
(* get_combined_metadata, get_processed_full_dataset and the worker pool   *)
(* of get_all_years_metadata.  The main thread and the workers take their  *)
(* steps in any order.                                                     *)
(***************************************************************************)
\* the years argument of get_combined_metadata: None, or a list of years
YearsArgs == {None} \cup {[kind |-> "years", set |-> S] : S \in SUBSET BuildYears}

\* a row of the combined dataset: its year column, the year whose metadata
\* it was read from, and its position there
DatasetRow(tag, origin, i) == [year |-> tag, origin |-> origin, n |-> i]

\* the rows of data/base_for_dashboard.parquet
SnapshotRows == <<DatasetRow(MinYear, MinYear, 1), DatasetRow(MaxYear, MaxYear, 1)>>

DatasetOf(rows, how) == [kind |-> "dataset", rows |-> rows, built |-> how]

\* a caller invokes get_combined_metadata(years)
CallGetCombinedMetadata ==
    /\ Idle
    /\ \E years \in YearsArgs :
        /\ op' = "get_combined_metadata"
        /\ args' = [args EXCEPT !.years = years]
    /\ pc' = "cm_dataset"
    /\ UNCHANGED <<case_id_str, years_to_try, candidates, df, matcher, case_meta,
                   pdf_filename, index, tar_filename, tar_content, log, ret,
                   raised, cacheVars, buildVars>>

\* the snapshot is read but the function goes on to the cold path
AfterSnapshot_AlwaysCold(found) == "cm_all_years"

\* lines 70-76: a snapshot that loads is returned at once; without one, or
\* with one that does not load, the cold path follows
AfterSnapshot(found) == IF found = "loads" THEN "cm_filter" ELSE "cm_all_years"

\* lines 60-76: get_processed_full_dataset is answered from its entry, or
\* reads the local snapshot when the file exists; a snapshot that does not
\* load is reported and left behind
CmDataset ==
    /\ pc = "cm_dataset"
    /\ IF dataset.kind = "entry"
       THEN /\ pc' = "cm_filter"
            /\ UNCHANGED <<dataset, snapshot, computations>>
       ELSE /\ computations' = Append(computations,
                                      Computation("get_processed_full_dataset", <<>>))
            /\ \E found \in {"absent", "loads", "corrupt"} :
                /\ snapshot' = found
                /\ pc' = AfterSnapshot(found)
                /\ IF found = "loads"
                   THEN dataset' = Resource(DatasetOf(SnapshotRows, "snapshot"))
                   ELSE UNCHANGED dataset
    /\ UNCHANGED <<op, args, case_id_str, years_to_try, candidates, df, matcher,
                   case_meta, pdf_filename, index, tar_filename, tar_content,
                   log, ret, raised, metadata_cache, index_cache, case_cache,
                   all_years, futures, result>>

\* lines 33-45 and 78: get_all_years_metadata is answered from its entry,
\* or submits one task per year to the pool
CmAllYears ==
    /\ pc = "cm_all_years"
    /\ IF all_years.kind = "entry"
       THEN /\ result' = all_years.value
            /\ pc' = "cm_process"
            /\ UNCHANGED <<futures, computations>>
       ELSE /\ computations' = Append(computations,
                                      Computation("get_all_years_metadata", <<>>))
            /\ futures' = [y \in BuildYears |-> [state |-> "queued", value |-> None]]
            /\ pc' = "cm_pool"
            /\ UNCHANGED result
    /\ UNCHANGED <<op, args, case_id_str, years_to_try, candidates, df, matcher,
                   case_meta, pdf_filename, index, tar_filename, tar_content,
                   log, ret, raised, cacheVars, snapshot>>

Running == {y \in BuildYears : futures[y].state = "running"}

\* a free worker of the pool takes a queued task
WorkerStart ==
    /\ pc = "cm_pool"
    /\ Cardinality(Running) < MaxWorkers
    /\ \E year \in BuildYears :
        /\ futures[year].state = "queued"
        /\ futures' = [futures EXCEPT ![year].state = "running"]
    /\ UNCHANGED <<pc, op, args, case_id_str, years_to_try, candidates, df,
                   matcher, case_meta, pdf_filename, index, tar_filename,
                   tar_content, log, ret, raised, cacheVars, computations,
                   snapshot, result>>

\* the worker runs get_metadata_for_year(year) (lines 6-13) and its future
\* holds what it returned
WorkerFinish ==
    /\ pc = "cm_pool"
    /\ \E year \in BuildYears :
        /\ futures[year].state = "running"
        /\ IF Fresh(metadata_cache[year], MetadataTtl)
           THEN /\ futures' = [futures EXCEPT ![year] =
                                  [state |-> "done", value |-> metadata_cache[year].value]]
                /\ UNCHANGED <<metadata_cache, log, computations>>
           ELSE \E payload \in DatasetPayloads(year) :
                /\ log' = Append(log, [kind |-> "metadata", year |-> year,
                                        outcome |-> "fetched"])
                /\ computations' = Append(computations,
                                          Computation("get_metadata_for_year", year))
                /\ metadata_cache' = Store(metadata_cache, year, payload)
                /\ futures' = [futures EXCEPT ![year] =
                                  [state |-> "done", value |-> payload]]
    /\ UNCHANGED <<pc, op, args, case_id_str, years_to_try, candidates, df,
                   matcher, case_meta, pdf_filename, index, tar_filename,
                   tar_content, ret, raised, index_cache, case_cache, all_years,
                   dataset, snapshot, result>>

\* the dict entry is written under the position of the future, not its year
Collected_ByPosition(res, year, value) ==
    Append(res, [year |-> MinYear + Len(res), df |-> value])

\* the write replaces the dict: what other years wrote is lost
Collected_Overwrite(res, year, value) == <<[year |-> year, df |-> value]>>

\* lines 50-54: result[year] = df with year = future_to_year[future]
Collected(res, year, value) == Append(res, [year |-> year, df |-> value])

\* a future whose task gave None is never handed over
Collect_SkipsFailed ==
    /\ pc = "cm_pool"
    /\ \E year \in BuildYears :
        /\ futures[year].state = "done"
        /\ futures[year].value # None
        /\ futures' = [futures EXCEPT ![year].state = "collected"]
        /\ result' = Collected(result, year, futures[year].value)
    /\ UNCHANGED <<pc, op, args, case_id_str, years_to_try, candidates, df,
                   matcher, case_meta, pdf_filename, index, tar_filename,
                   tar_content, log, ret, raised, cacheVars, computations,
                   snapshot>>

\* lines 48-56: as_completed hands a finished future to the main thread,
\* which keeps its frame unless it is None
Collect ==
    /\ pc = "cm_pool"
    /\ \E year \in BuildYears :
        /\ futures[year].state = "done"
        /\ futures' = [futures EXCEPT ![year].state = "collected"]
        /\ result' = IF futures[year].value # None
                     THEN Collected(result, year, futures[year].value)
                     ELSE result
    /\ UNCHANGED <<pc, op, args, case_id_str, years_to_try, candidates, df,
                   matcher, case_meta, pdf_filename, index, tar_filename,
                   tar_content, log, ret, raised, cacheVars, computations,
                   snapshot>>

\* lines 46-58: every future was handed over; the pool shuts down and the
\* dict is returned and kept by st.cache_resource
PoolDone ==
    /\ pc = "cm_pool"
    /\ \A y \in BuildYears : futures[y].state = "collected"
    /\ all_years' = Resource(result)
    /\ pc' = "cm_process"
    /\ UNCHANGED <<op, args, case_id_str, years_to_try, candidates, df, matcher,
                   case_meta, pdf_filename, index, tar_filename, tar_content,
                   log, ret, raised, metadata_cache, index_cache, case_cache,
                   dataset, buildVars>>

\* lines 89-96: a frame with a judge, citation or title column is handed to
\* the module preprocessing, which cache_utils.py never imports
NormalizeRaises(frame) == frame.columns # {}

RECURSIVE Concat(_)
\* lines 82-102: df['year'] = year on a copy of each frame, then pd.concat
Concat(all_data) ==
    IF all_data = <<>> THEN <<>>
    ELSE LET item == Head(all_data)
         IN  [i \in 1..item.df.nrows |-> DatasetRow(item.year, item.df.of, i)]
             \o Concat(Tail(all_data))

\* lines 78-102: the cold path after get_all_years_metadata: None for an
\* empty dict, else the frames tagged, normalised and concatenated; what
\* is returned is kept by st.cache_resource
CmProcess ==
    /\ pc = "cm_process"
    /\ IF result = <<>>
       THEN /\ dataset' = Resource(None)
            /\ pc' = "cm_filter"
            /\ UNCHANGED raised
       ELSE IF \E i \in 1..Len(result) : NormalizeRaises(result[i].df)
       THEN /\ raised' = TRUE
            /\ pc' = "done"
            /\ UNCHANGED dataset
       ELSE /\ dataset' = Resource(DatasetOf(Concat(result), "cold"))
            /\ pc' = "cm_filter"
            /\ UNCHANGED raised
    /\ UNCHANGED <<op, args, case_id_str, years_to_try, candidates, df, matcher,
                   case_meta, pdf_filename, index, tar_filename, tar_content,
                   log, ret, metadata_cache, index_cache, case_cache, all_years,
                   buildVars>>

\* the years argument is ignored
CombinedMetadata_Unfiltered(full_df, years) == full_df

\* lines 114-120: None, the whole dataset, or its rows of the given years
CombinedMetadata(full_df, years) ==
    IF full_df = None THEN None
    ELSE IF years = None THEN full_df
    ELSE [full_df EXCEPT !.rows = SelectSeq(full_df.rows,
                                            LAMBDA r : r.year \in years.set)]

CmFilter ==
    /\ pc = "cm_filter"
    /\ ret' = CombinedMetadata(dataset.value, args.years)
    /\ pc' = "done"
    /\ UNCHANGED <<op, args, case_id_str, years_to_try, candidates, df, matcher,
                   case_meta, pdf_filename, index, tar_filename, tar_content,
                   log, raised, cacheVars, buildVars>>

NextBuild ==
    \/ CallGetCombinedMetadata
    \/ CmDataset
    \/ CmAllYears
    \/ WorkerStart
    \/ WorkerFinish
    \/ Collect
    \/ PoolDone
    \/ CmProcess
    \/ CmFilter
    \/ Tick
    \/ ClearAll
    \/ Return

SpecBuild == Init /\ [][NextBuild]_vars

\* the threads of the pool and the main thread are scheduled, and every
\* request of a worker ends: requests.get carries timeout=30
FairBuild ==
    /\ Init /\ [][NextBuild]_vars
    /\ WF_vars(WorkerStart)
    /\ WF_vars(WorkerFinish)
    /\ WF_vars(Collect)
    /\ WF_vars(PoolDone)

(***************************************************************************)
(* The judges cell of a metadata row and its two normalizers:              *)
(* preprocessing.normalize_judges and get_judges of get_case_metadata.     *)
(***************************************************************************)
\* the length of the first separator of seps found at position i of s
\* (0 when none is), letters compared without case when ci
SepLenAt(s, i, seps, ci) ==
    LET fits(k) == /\ i + Len(seps[k]) - 1 <= Len(s)
                   /\ \A j \in 1..Len(seps[k]) :
                        IF ci THEN LowerChar(s[i + j - 1]) = LowerChar(seps[k][j])
                        ELSE s[i + j - 1] = seps[k][j]
        hits == {k \in 1..Len(seps) : fits(k)}
    IN  IF hits = {} THEN 0 ELSE Len(seps[Min(hits)])

RECURSIVE SplitFrom(_, _, _, _, _)
\* re.split of an alternation of literals, from position i on, cur being
\* the piece under construction
SplitFrom(s, i, cur, seps, ci) ==
    IF i > Len(s) THEN <<cur>>
    ELSE LET n == SepLenAt(s, i, seps, ci)
         IN  IF n > 0 THEN <<cur>> \o SplitFrom(s, i + n, <<>>, seps, ci)
             ELSE SplitFrom(s, i + 1, Append(cur, s[i]), seps, ci)

\* [p.strip() for p in parts if p.strip()]
StripNonEmpty(parts) ==
    LET stripped == [i \in 1..Len(parts) |-> Strip(parts[i])]
    IN  SelectSeq(stripped, LAMBDA p : p # <<>>)

\* the last alternative of r",|;| and " and of r"[,;]| and "
AndWord == <<" ", "a", "n", "d", " ">>

RECURSIVE JudgePieces(_)
\* the strings of n pieces, names and separators in turn
JudgePieces(n) ==
    IF n = 0 THEN {<<>>}
    ELSE {s \o t : s \in JudgePieces(n - 1),
                   t \in IF n % 2 = 1 THEN {<<"A">>, <<"B">>, <<"C">>}
                         ELSE {<<",", " ">>, AndWord,
                               <<" ", "A", "N", "D", " ">>, <<";">>}}

\* the strings of at most n pieces
JudgeStrings(n) == UNION {JudgePieces(k) : k \in 0..n}

\* a judges cell: NaN, None, a string, or a list of strings
JudgeCells ==
    {[kind |-> "nan"], None}
    \cup {[kind |-> "str", text |-> t] : t \in JudgeStrings(MaxJudgeTokens) \cup {<<" ">>}}
    \cup {[kind |-> "list", items |-> l] : l \in SeqsUpTo({<<"A">>, <<" ", "B">>, <<"C", " ">>, <<" ">>},
                                                  MaxJudges)}

JudgeList(items) == [kind |-> "list", items |-> items]

\* "if pd.isna(x):" for a list x: pd.isna gives one boolean per element,
\* and the truth value of that array is the element's for one element,
\* an error for several, and False or an error (as the numpy of the build
\* has it) for none
IsNaTruth(cell, empty_truth) ==
    CASE cell.kind \in {"nan", "none"} -> "true"
      [] cell.kind = "str" -> "false"
      [] cell.kind = "list" ->
            IF Len(cell.items) = 0 THEN empty_truth
            ELSE IF Len(cell.items) = 1 THEN "false"
            ELSE "raise"

\* preprocessing.py lines 35-43
NormalizeJudges(cell, empty_truth) ==
    LET na == IsNaTruth(cell, empty_truth)
    IN  IF na = "raise" THEN [kind |-> "raise"]
        ELSE IF na = "true" THEN JudgeList(<<>>)
        ELSE IF cell.kind = "list" THEN JudgeList(StripNonEmpty(cell.items))
        ELSE JudgeList(StripNonEmpty(SplitFrom(cell.text, 1, <<>>,
                                           <<<<",">>, <<";">>, AndWord>>, FALSE)))

\* aws_utils.py lines 206-220, on the cell case.get('judge', ...)
GetJudges(cell, empty_truth) ==
    LET na == IsNaTruth(cell, empty_truth)
    IN  IF na = "raise" THEN [kind |-> "raise"]
        ELSE IF na = "true" THEN JudgeList(<<>>)
        ELSE IF cell.kind = "list" THEN JudgeList(StripNonEmpty(cell.items))
        ELSE LET judges_str == Strip(cell.text)
             IN  IF judges_str = <<>> THEN JudgeList(<<>>)
                 ELSE IF Contains(judges_str, <<",">>)
                         \/ Contains(Lower(judges_str), AndWord)
                 THEN JudgeList(StripNonEmpty(SplitFrom(judges_str, 1, <<>>,
                                                <<<<",">>, <<";">>, AndWord>>, TRUE)))
                 ELSE JudgeList(<<judges_str>>)

\* one of the two normalizers is applied to a judges cell
Normalize(fn) ==
    /\ Idle
    /\ \E cell \in JudgeCells, empty_truth \in {"false", "raise"} :
        LET out == IF fn = "normalize_judges" THEN NormalizeJudges(cell, empty_truth)
                   ELSE GetJudges(cell, empty_truth)
        IN  /\ op' = fn
            /\ args' = [args EXCEPT !.judges = cell]
            /\ raised' = (out.kind = "raise")
            /\ ret' = IF out.kind = "raise" THEN None ELSE out
    /\ pc' = "done"
    /\ UNCHANGED <<cacheVars, buildVars>>
    /\ UNCHANGED <<case_id_str, years_to_try, candidates, df, matcher,
                   case_meta, pdf_filename, index, tar_filename, tar_content,
                   log>>

\* the dataset normalizer on the judge column of a frame
CallNormalizeJudges == Normalize("normalize_judges")

\* the resolver's normalizer on the judge cell of the matched row
CallGetJudges == Normalize("get_judges")

NextJudges ==
    \/ CallNormalizeJudges
    \/ CallGetJudges
    \/ Return

SpecJudges == Init /\ [][NextJudges]_vars

(***************************************************************************)
(* The worker pool of get_all_years_metadata at its full width.  Only the  *)
(* occupancy of the pool is followed here: the frames the workers return   *)
(* are those of WorkerFinish and are left out.                             *)
(***************************************************************************)
\* years = list(range(1950, 2026)), cut to one year more than the pool is wide
PoolYears == MinYear..(MinYear + MaxWorkers)

\* the futures whose task a worker thread is running
InFlight == {y \in DOMAIN futures : futures[y].state = "running"}

\* no limit on the number of worker threads
FreeWorker_Unbounded(running) == TRUE

\* ThreadPoolExecutor(max_workers=10): a thread is free to take a task
FreeWorker(running) == Cardinality(running) < MaxWorkers

\* line 48: one task per year is submitted
PoolSubmit ==
    /\ Idle
    /\ op' = "get_all_years_metadata"
    /\ pc' = "pool"
    /\ futures' = [y \in PoolYears |-> [state |-> "queued", value |-> None]]
    /\ UNCHANGED <<args, case_id_str, years_to_try, candidates, df, matcher,
                   case_meta, pdf_filename, index, tar_filename, tar_content,
                   log, ret, raised, cacheVars, computations, snapshot, result>>

\* a free worker thread takes the task at the head of the work queue,
\* which holds the tasks in the order of their submission
PoolStart ==
    /\ pc = "pool"
    /\ FreeWorker(InFlight)
    /\ LET queued == {y \in DOMAIN futures : futures[y].state = "queued"}
       IN  /\ queued # {}
           /\ futures' = [futures EXCEPT ![Min(queued)].state = "running"]
    /\ UNCHANGED <<pc, op, args, case_id_str, years_to_try, candidates, df,
                   matcher, case_meta, pdf_filename, index, tar_filename,
                   tar_content, log, ret, raised, cacheVars, computations,
                   snapshot, result>>

\* a task returns or raises
PoolFinish ==
    /\ pc = "pool"
    /\ \E year \in InFlight :
        futures' = [futures EXCEPT ![year].state = "done"]
    /\ UNCHANGED <<pc, op, args, case_id_str, years_to_try, candidates, df,
                   matcher, case_meta, pdf_filename, index, tar_filename,
                   tar_content, log, ret, raised, cacheVars, computations,
                   snapshot, result>>

\* lines 49-56: as_completed hands a finished future to the main thread
PoolCollect ==
    /\ pc = "pool"
    /\ \E year \in DOMAIN futures :
        /\ futures[year].state = "done"
        /\ futures' = [futures EXCEPT ![year].state = "collected"]
    /\ UNCHANGED <<pc, op, args, case_id_str, years_to_try, candidates, df,
                   matcher, case_meta, pdf_filename, index, tar_filename,
                   tar_content, log, ret, raised, cacheVars, computations,
                   snapshot, result>>

\* line 58: every future was handed over
PoolReturn ==
    /\ pc = "pool"
    /\ \A y \in DOMAIN futures : futures[y].state = "collected"
    /\ pc' = "done"
    /\ UNCHANGED <<op, args, case_id_str, years_to_try, candidates, df, matcher,
                   case_meta, pdf_filename, index, tar_filename, tar_content,
                   log, ret, raised, cacheVars, buildVars>>

NextPool ==
    \/ PoolSubmit
    \/ PoolStart
    \/ PoolFinish
    \/ PoolCollect
    \/ PoolReturn
    \/ Return

SpecPool == Init /\ [][NextPool]_vars

(***************************************************************************)
(* The dataset build together with direct reads of a year's metadata.      *)
(***************************************************************************)
NextNotFound ==
    \/ GetMetadataForYear
    \/ CallGetCombinedMetadata
    \/ CmDataset
    \/ CmAllYears
    \/ WorkerStart
    \/ WorkerFinish
    \/ Collect
    \/ PoolDone
    \/ CmProcess
    \/ CmFilter
    \/ Tick
    \/ ClearAll
    \/ Return

SpecNotFound == Init /\ [][NextNotFound]_vars

\* all operations together
Next ==
    \/ CallExtractPdfFromTar
    \/ CallGetPdfUrl
    \/ PuLocate
    \/ PoolSubmit
    \/ PoolStart
    \/ PoolFinish
    \/ PoolCollect
    \/ PoolReturn
    \/ CallNormalizeJudges
    \/ CallGetJudges
    \/ GetMetadataForYear
    \/ GetIndexJsonForYear
    \/ CallGetCaseDetailsCached
    \/ CdStore
    \/ CallGetCombinedMetadata
    \/ CmDataset
    \/ CmAllYears
    \/ WorkerStart
    \/ WorkerFinish
    \/ Collect
    \/ PoolDone
    \/ CmProcess
    \/ CmFilter
    \/ Tick
    \/ ClearAll
    \/ CallGetCaseMetadata
    \/ CallGetPdfLocation
    \/ CallFetchPdfForCase
    \/ FpStart
    \/ GcmStart
    \/ GcmTryYear
    \/ GcmExhausted
    \/ GplLocate
    \/ FpResolved
    \/ FpLocate
    \/ FpDiagnose
    \/ FpDownload
    \/ FpExtract
    \/ Return

Spec == Init /\ [][Next]_vars

(***************************************************************************)
(* Properties of get_case_metadata.                                        *)
(***************************************************************************)
GcmDone == op = "get_case_metadata" /\ pc = "done"

\* the years of the metadata requests of the running call, in order
FetchedYears ==
    LET md == SelectSeq(log, LAMBDA e : e.kind = "metadata")
    IN  [i \in 1..Len(md) |-> md[i].year]

\* the in-range years that occur in s as a word-bounded 19xx/20xx token
EmbeddedYears(s) ==
    {y \in MinYear..MaxYear :
        \E i \in 1..Len(s) : YearTokenAt(s, i) /\ ToInt(SubSeq(s, i, i + 3)) = y}

\* C1: whenever the case_id holds an embedded 4-digit year token within
\* [1950, current year], the first metadata request of get_case_metadata is
\* for that year, ahead of the caller's year.
C1_EmbeddedYearTriedFirst ==
    (op = "get_case_metadata" /\ FetchedYears # <<>>) =>
        \A y \in EmbeddedYears(Strip(args.case_id)) : FetchedYears[1] = y

\* C2: get_case_metadata ends by returning; it returns the record of the
\* first candidate year that produced a match, with that year in the record,
\* and None when no candidate year produced one.
C2_FirstMatchingYearWins ==
    GcmDone =>
        /\ ~raised
        /\ \A i \in 1..Len(log) : log[i].year = candidates[i]
        /\ \A i \in 1..(Len(log) - 1) : log[i].outcome \in {"skipped", "none"}
        /\ IF log # <<>> /\ log[Len(log)].outcome \in {"a", "b", "c"}
           THEN /\ ret.kind = "record"
                /\ ret.year = log[Len(log)].year
           ELSE /\ ret = None
                /\ Len(log) = Len(candidates)

\* case-insensitive substring containment of the query in a cell
ContainsIgnoreCase(cell, q) == Contains(Lower(cell), Lower(q))

\* C3: the row returned from a year's metadata matches the query exactly
\* after case-fold and trim; or no row does and it matches after also
\* removing the spaces; or no row does either and it contains the query as a
\* case-insensitive substring.
C3_MatcherOrder ==
    (GcmDone /\ ret.kind = "record") =>
        LET q == Strip(args.case_id)
            cells == {df.rows[i].case_id : i \in 1..Len(df.rows)}
            anyA == \E c \in cells : MatchesExact(c, q)
            anyB == \E c \in cells : MatchesNoSpaces(c, q)
        IN  IF anyA THEN MatchesExact(ret.case_id, q)
            ELSE IF anyB THEN MatchesNoSpaces(ret.case_id, q)
            ELSE ContainsIgnoreCase(ret.case_id, q)

\* C4: a case_id that is empty after trimming yields None and no metadata
\* request is issued.
C4_EmptyCaseIdNoFetch ==
    (GcmDone /\ \A i \in 1..Len(args.case_id) : args.case_id[i] \in Whitespace)
        => (ret = None /\ ~raised /\ log = <<>>)

C4_Witness ==
    /\ GcmDone
    /\ args.case_id = <<" ", " ">>
    /\ ret = None
    /\ log = <<>>

\* C5: no exception escapes a core operation.
C5_NoExceptionEscapes == ~raised

(***************************************************************************)
(* Properties of fetch_pdf_for_case.                                       *)
(***************************************************************************)
FetchDone == op = "fetch_pdf_for_case" /\ pc = "done"

Requests(k) == SelectSeq(log, LAMBDA e : e.kind = k)

\* the path argument was passed, whatever its value
PathPassed == args.pdf_path.some

\* the path argument was passed and is not the empty string
PathGiven == args.pdf_path.some /\ args.pdf_path.val # <<>>

\* the case was resolved to a record with a non-empty path
CaseResolved == case_meta.kind = "record" /\ case_meta.path # <<>>

\* the resolver returned, and gave no record or a record without a path
ResolveNotFound ==
    /\ ~PathGiven
    /\ pc \notin {"fp_start", "gcm_start", "gcm_loop"}
    /\ \A i \in 1..Len(log) : log[i].kind = "metadata" => log[i].outcome # "raise"
    /\ ~CaseResolved

LocateNotFound == Requests("index") # <<>> /\ tar_filename = None

DownloadNotFound ==
    Requests("tar") # <<>> /\ tar_content.kind \in {"none", "empty"}

\* C6: bytes are returned only when every stage succeeded in order; a stage
\* that ends NotFound makes the whole call return NotFound, and no later
\* stage is started after it.
C6_StagesShortCircuit ==
    op = "fetch_pdf_for_case" =>
        /\ ret.kind = "bytes" =>
            /\ PathGiven \/ CaseResolved
            /\ tar_filename # None
            /\ tar_content.kind = "archive"
            /\ Len(Requests("index")) = 1 /\ Len(Requests("tar")) = 1
            /\ log[Len(log)].kind = "tar" /\ log[Len(log) - 1].kind = "index"
        /\ ResolveNotFound => Requests("index") = <<>> /\ Requests("tar") = <<>>
        /\ LocateNotFound => Requests("tar") = <<>>
        /\ (FetchDone /\ (ResolveNotFound \/ LocateNotFound \/ DownloadNotFound))
              => (ret = None /\ ~raised)

\* s is the last '/'-separated segment of path
IsLastSegmentOf(s, path) ==
    /\ \A i \in 1..Len(s) : s[i] # "/"
    /\ EndsWith(path, s)
    /\ Len(s) = Len(path) \/ path[Len(path) - Len(s)] = "/"

\* C7 as stated: whenever a path is passed, no metadata request is issued and
\* the filename is the last segment of the path.
C7_PathSkipsResolver ==
    (op = "fetch_pdf_for_case" /\ PathPassed /\ pc # "fp_start") =>
        /\ Requests("metadata") = <<>>
        /\ IsLastSegmentOf(pdf_filename, args.pdf_path.val)

\* C7 amended: whenever a non-empty path is passed, no metadata request is
\* issued during the call and the filename used for the lookup and the
\* extraction is the last segment of the path.
C7_NonEmptyPathSkipsResolver ==
    (op = "fetch_pdf_for_case" /\ PathGiven /\ pc # "fp_start") =>
        /\ Requests("metadata") = <<>>
        /\ IsLastSegmentOf(pdf_filename, args.pdf_path.val)

C7_Witness ==
    /\ FetchDone
    /\ args.pdf_path = Some(<<"d", "/", "X">>)
    /\ pdf_filename = <<"X">>
    /\ ret.kind = "bytes"
    /\ Requests("metadata") = <<>>

\* a member name that ends with the filename, plain or with .pdf or _EN.pdf
NameFits(member_name, filename) ==
    \/ EndsWith(member_name, filename)
    \/ EndsWith(member_name, filename \o DotPdf)
    \/ EndsWith(member_name, filename \o EnPdf)

\* C8: with the shard located, fetch_pdf_for_case never raises, and returns
\* None when the download fails, when the archive cannot be opened or read,
\* and when no member matches the filename.
C8_RetrieverNeverRaises ==
    (FetchDone /\ tar_filename # None) =>
        /\ ~raised
        /\ tar_content.kind \in {"none", "empty", "corrupt"} => ret = None
        /\ (tar_content.kind = "archive"
            /\ \A i \in 1..Len(tar_content.members) :
                \/ ~NameFits(tar_content.members[i].name, pdf_filename)
                \/ tar_content.members[i].entry = "broken")
              => ret = None

C8_Witness ==
    /\ FetchDone
    /\ tar_filename # None
    /\ tar_content.kind = "archive"
    /\ Len(tar_content.members) = 2
    /\ tar_content.members[1].entry = "broken"
    /\ NameFits(tar_content.members[1].name, pdf_filename)
    /\ ret = None
    /\ ~raised

(***************************************************************************)
(* Properties of get_pdf_location.                                         *)
(***************************************************************************)
GplDone == op = "get_pdf_location" /\ pc = "done"

IsV1(idx) == idx.kind = "object" /\ ~HasKey(idx, "parts")

\* the shards of a V1 document: its keys with a list value, in order
ShardItems(idx) == SelectSeq(idx.items, LAMBDA it : it.value.t = "files")

\* the V2 document that lists the shards of a V1 document in the same order
AsV2(idx) ==
    LET shards == ShardItems(idx)
    IN  [kind |-> "object",
         items |-> <<[key |-> "parts",
                      value |-> [t |-> "parts",
                                 parts |-> [i \in 1..Len(shards) |->
                                              [name |-> Name(shards[i].key),
                                               files |-> shards[i].value.files]]]]>>]

\* C9: the shard found in a V1 document is the shard found in the V2
\* document that lists the same shards in the same order.
C9_V1V2SameShard ==
    (GplDone /\ IsV1(index)) =>
        ret = GetPdfLocation(args.year, args.pdf_filename, FetchIndexJson(AsV2(index)))

C9_Witness ==
    /\ GplDone
    /\ IsV1(index)
    /\ Len(index.items) = 2
    /\ ret = Name(index.items[2].key)
    /\ args.pdf_filename = <<"X">>

\* the index lists one shard, whose only file is 2021/X_EN.pdf
OnlyXEn(idx) ==
    LET only == {YearPrefixed(2021, <<"X">> \o EnPdf)}
    IN  /\ idx.kind = "object"
        /\ Len(idx.items) = 1
        /\ \/ idx.items[1].value = [t |-> "files", files |-> only]
           \/ /\ idx.items[1].key = "parts"
              /\ idx.items[1].value.t = "parts"
              /\ Len(idx.items[1].value.parts) = 1
              /\ idx.items[1].value.parts[1].files = only
              /\ idx.items[1].value.parts[1].name # None

TheShard(idx) ==
    IF idx.items[1].key = "parts" THEN idx.items[1].value.parts[1].name
    ELSE Name(idx.items[1].key)

\* C10 as stated: against a shard that lists only 2021/X_EN.pdf, each of X,
\* X.pdf and X_EN.pdf resolves to that shard for year 2021.
C10_SuffixTolerant ==
    (GplDone /\ args.year = 2021 /\ OnlyXEn(index)
        /\ args.pdf_filename \in {<<"X">>, <<"X">> \o DotPdf, <<"X">> \o EnPdf})
      => ret = TheShard(index)

\* C10 amended: against a shard that lists only 2021/X_EN.pdf, X and
\* X_EN.pdf resolve to that shard for year 2021, and X.pdf resolves to no
\* shard: suffixes are only ever appended to the filename, never removed.
C10_AppendOnlyTolerant ==
    (GplDone /\ args.year = 2021 /\ OnlyXEn(index)) =>
        /\ args.pdf_filename \in {<<"X">>, <<"X">> \o EnPdf} => ret = TheShard(index)
        /\ args.pdf_filename = <<"X">> \o DotPdf => ret = None

C10_Witness ==
    /\ GplDone
    /\ args.year = 2021
    /\ OnlyXEn(index)
    /\ args.pdf_filename = <<"X">>
    /\ ret = Name("data-part-1.tar")

\* the six spellings of a filename that a file list is searched for
Variants(year, filename) ==
    {filename, filename \o DotPdf, filename \o EnPdf,
     YearPrefixed(year, filename), YearPrefixed(year, filename \o DotPdf),
     YearPrefixed(year, filename \o EnPdf)}

\* the shards an index document describes, in document order: the
\* descriptors under "parts", or else the keys that hold a list
Shards(idx) ==
    IF idx.kind # "object" THEN <<>>
    ELSE IF HasKey(idx, "parts")
         THEN LET v == Get(idx, "parts")
              IN  IF v.t = "parts" THEN v.parts ELSE <<>>
    ELSE LET shards == ShardItems(idx)
         IN  [i \in 1..Len(shards) |->
                [name |-> Name(shards[i].key), files |-> shards[i].value.files]]

\* the keys of a V1 document whose value is not a list
ScalarKeys(idx) ==
    {idx.items[i].key : i \in {j \in 1..Len(idx.items) : idx.items[j].value.t = "scalar"}}

\* C11: get_pdf_location returns the name of the first shard, in document
\* order, whose file list holds one of the six spellings of the filename
\* (the name a descriptor carries, None when it carries none); a V1 key whose
\* value is not a list is never returned; when no shard holds a spelling
\* the result is None.
C11_FirstMatchingShard ==
    GplDone =>
        LET shards == Shards(index)
            hits == {i \in 1..Len(shards) :
                        shards[i].files \cap Variants(args.year, args.pdf_filename) # {}}
        IN  /\ hits = {} => ret = None
            /\ hits # {} => ret = shards[Min(hits)].name
            /\ IsV1(index) => \A k \in ScalarKeys(index) : ret # Name(k)

\* both shards of a V1 document hold a spelling, and the first is returned
C11_Witness ==
    /\ GplDone
    /\ IsV1(index)
    /\ Len(index.items) = 2
    /\ \A i \in 1..2 : index.items[i].value.t = "files"
    /\ \A i \in 1..2 :
          index.items[i].value.files \cap Variants(args.year, args.pdf_filename) # {}
    /\ ret = Name(index.items[1].key)

(***************************************************************************)
(* Properties of the cache layer.                                          *)
(***************************************************************************)
\* an entry stored less than ttl seconds ago
Unexpired(e, ttl) == e.kind = "entry" /\ e.age < ttl

\* the step is the start of a call of fn from the idle state
Starts(fn) == pc = "idle" /\ op' = fn

\* C12: a read of get_metadata_for_year, get_index_json_for_year or
\* get_case_details_cached whose entry is unexpired returns the entry's
\* value and runs nothing; a read whose entry is absent or expired runs the
\* function's body exactly once and stores what it returned as a new entry.
C12_OncePerWindow ==
    [][/\ Starts("get_metadata_for_year") =>
            LET e == metadata_cache[args'.year]
            IN  IF Unexpired(e, MetadataTtl)
                THEN /\ computations' = <<>> /\ log' = <<>>
                     /\ ret' = e.value
                     /\ metadata_cache' = metadata_cache
                ELSE /\ Len(computations') = 1 /\ Len(log') = 1
                     /\ metadata_cache'[args'.year] = Entry(ret', 0)
       /\ Starts("get_index_json_for_year") =>
            LET e == index_cache[<<args'.year, "english">>]
            IN  IF Unexpired(e, IndexTtl)
                THEN /\ computations' = <<>> /\ log' = <<>>
                     /\ ret' = e.value
                     /\ index_cache' = index_cache
                ELSE /\ Len(computations') = 1 /\ Len(log') = 1
                     /\ index_cache'[<<args'.year, "english">>] = Entry(ret', 0)
       /\ Starts("get_case_details_cached") =>
            LET e == case_cache[<<args'.year, args'.case_id>>]
            IN  IF Unexpired(e, CaseDetailsTtl)
                THEN /\ computations' = <<>> /\ pc' = "done"
                     /\ ret' = e.value
                ELSE /\ Len(computations') = 1 /\ pc' = "gcm_start"
       /\ op = "get_case_details_cached" =>
            /\ computations' \in {computations, <<>>}
            /\ (pc = "cd_store" /\ pc' = "done") =>
                  case_cache'[<<args.year, args.case_id>>] = Entry(ret', 0)
            /\ pc # "cd_store" => case_cache' = case_cache
      ]_vars

\* a read of an index entry stored half its ttl ago was served from the
\* entry, while the metadata entry stored at the same time has expired
C12_Witness ==
    /\ op = "get_index_json_for_year"
    /\ pc = "done"
    /\ computations = <<>>
    /\ index_cache[<<2021, "english">>].kind = "entry"
    /\ index_cache[<<2021, "english">>].age = MetadataTtl
    /\ metadata_cache[2021].kind = "entry"
    /\ metadata_cache[2021].age = MetadataTtl

\* the number of cache entries, over all tiers, that the step changes
NumChanged ==
    Cardinality({y \in CachedYears : metadata_cache'[y] # metadata_cache[y]})
    + Cardinality({k \in DOMAIN index_cache : index_cache'[k] # index_cache[k]})
    + Cardinality({k \in DOMAIN case_cache : case_cache'[k] # case_cache[k]})
    + (IF all_years' # all_years THEN 1 ELSE 0)
    + (IF dataset' # dataset THEN 1 ELSE 0)

\* an entry is what it was, but for the time it has been stored
OnlyOlder(e, f) ==
    /\ f.kind = e.kind
    /\ e.kind = "entry" => f.value = e.value /\ f.age >= e.age

\* the step lets time pass: no entry of any tier changes its value
TimePasses ==
    /\ \A y \in CachedYears : OnlyOlder(metadata_cache[y], metadata_cache'[y])
    /\ \A k \in DOMAIN index_cache : OnlyOlder(index_cache[k], index_cache'[k])
    /\ \A k \in DOMAIN case_cache : OnlyOlder(case_cache[k], case_cache'[k])
    /\ all_years' = all_years
    /\ dataset' = dataset

\* C13: apart from the manual clearing of all caches, a step either lets
\* time pass, which changes no entry's value and makes no entry younger, or
\* it stores the entry of one key and leaves every other entry of every
\* tier exactly as it was.
C13_NoCrossKeyInterference ==
    [][op' = "clear_all" \/ TimePasses \/ NumChanged <= 1]_vars

\* the resolution of "I" was just stored, while the entry of " I" and the
\* metadata entry, both stored earlier, are what they were
C13_Witness ==
    /\ op = "get_case_details_cached"
    /\ pc = "done"
    /\ computations # <<>>
    /\ args.case_id = <<"I">>
    /\ case_cache[<<2021, <<"I">>>>] = Entry(ret, 0)
    /\ ret # None
    /\ case_cache[<<2021, <<" ", "I">>>>] = Entry(None, TickSeconds)
    /\ metadata_cache[2021].kind = "entry"
    /\ metadata_cache[2021].age = MetadataTtl

\* no tier holds an entry
AllTiersEmpty ==
    /\ \A y \in CachedYears : metadata_cache[y] = Absent
    /\ \A k \in DOMAIN index_cache : index_cache[k] = Absent
    /\ \A k \in DOMAIN case_cache : case_cache[k] = Absent
    /\ all_years = Absent
    /\ dataset = Absent

\* C14: when the Clear All Cache button has acted, no tier (per-year
\* metadata, per-index, per-resolved-case, all-years map, whole dataset)
\* holds an entry, so that the next read of any key finds nothing stored
\* and runs its function again.
C14_ClearAllResetsEveryTier ==
    (op = "clear_all" /\ pc = "done") => AllTiersEmpty

C14_Witness ==
    /\ op = "clear_all"
    /\ pc = "done"
    /\ AllTiersEmpty

\* the metadata requests of the running call for a year
MetadataRequestsFor(year) ==
    SelectSeq(log, LAMBDA e : e.kind = "metadata" /\ e.year = year)

\* C15: core lookups go through the ttl cache, so that a year's metadata is
\* fetched over the network at most once within its hour: while the entry
\* of get_metadata_for_year for a year is unexpired (the year was fetched
\* less than an hour ago), a resolution for that year issues no metadata
\* request for it.
C15_LookupsUseTtlCache ==
    (op = "get_case_details_cached" /\ pc = "done"
        /\ Unexpired(metadata_cache[args.year], MetadataTtl))
      => MetadataRequestsFor(args.year) = <<>>

\* case_ids of the cache that another case_id equals after trimming
SameAfterTrim(case_id) ==
    {c \in TtlCaseIds : c # case_id /\ Strip(c) = Strip(case_id)}

CdDone == op = "get_case_details_cached" /\ pc = "done"

CmDone == op = "get_combined_metadata" /\ pc = "done"

\* the running call went down the cold path and its pool has run
PoolRan == \A y \in BuildYears : futures[y].state = "collected"

\* the years whose worker returned a frame
FetchedOk == {y \in BuildYears : futures[y].value # None}

\* the years the caller asked for
Wanted == IF args.years = None THEN BuildYears ELSE args.years.set

\* the rows of the frames the workers returned, each under its own year
RowsOfFetched ==
    {DatasetRow(y, y, i) : y \in FetchedOk \cap Wanted, i \in 1..MaxRows}
    \cap {r \in [year : BuildYears, origin : BuildYears, n : 1..MaxRows] :
            r.n <= futures[r.origin].value.nrows}

RowSet(rows) == {rows[i] : i \in 1..Len(rows)}

\* C17: a cold build in which some years' fetches fail does not raise, and
\* get_combined_metadata returns the rows of exactly the years that were
\* fetched (nothing when none was).
C17_PartialFailureTolerated ==
    (CmDone /\ PoolRan /\ FetchedOk # BuildYears) =>
        /\ ~raised
        /\ IF FetchedOk = {} THEN ret = None
           ELSE ret # None /\ RowSet(ret.rows) = RowsOfFetched

\* the singleton holds a dataset that the cold path built
ColdBuilt ==
    /\ dataset.kind = "entry"
    /\ dataset.value # None
    /\ dataset.value.built = "cold"

\* C18: in a dataset built on the cold path every row carries, as its year,
\* the year whose metadata it was read from; no row occurs twice; and each
\* year of the all-years map occurs there once and contributes all its rows
\* and no others, in whatever order the workers finished.
C18_RowsTaggedOncePerYear ==
    ColdBuilt =>
        LET rows == dataset.value.rows
            fetched == all_years.value
        IN  /\ \A i \in 1..Len(rows) : rows[i].year = rows[i].origin
            /\ \A i, j \in 1..Len(rows) : rows[i] = rows[j] => i = j
            /\ \A i, j \in 1..Len(fetched) : fetched[i].year = fetched[j].year => i = j
            /\ \A i \in 1..Len(fetched) :
                 Cardinality({k \in 1..Len(rows) : rows[k].origin = fetched[i].year})
                   = fetched[i].df.nrows
            /\ \A k \in 1..Len(rows) :
                 \E i \in 1..Len(fetched) : fetched[i].year = rows[k].origin

\* the worker of the later year finished first, and both years are there
C18_Witness ==
    /\ ColdBuilt
    /\ Len(dataset.value.rows) = 2
    /\ dataset.value.rows[1].year = MinYear + 1
    /\ dataset.value.rows[2].year = MinYear

\* rows is the subsequence of the rows of full whose year is in the set
IsFilterOf(rows, full, set) ==
    /\ RowSet(rows) = {r \in RowSet(full) : r.year \in set}
    /\ Len(rows) = Cardinality(RowSet(rows))
    /\ \A i, j \in 1..Len(rows) :
         i < j => \E k, l \in 1..Len(full) : k < l /\ full[k] = rows[i] /\ full[l] = rows[j]

\* a call of get_combined_metadata that found the singleton in place: it
\* ran no cached function's body
ServedFromSingleton == CmDone /\ computations = <<>>

\* what such a call is to return
FilteredAnswer ==
    /\ log = <<>>
    /\ ~raised
    /\ dataset.kind = "entry"
    /\ IF dataset.value = None THEN ret = None
       ELSE IF args.years = None THEN ret = dataset.value
       ELSE /\ ret # None
            /\ IsFilterOf(ret.rows, dataset.value.rows, args.years.set)

\* C19: once the dataset singleton is in place, no step changes or drops it
\* but the Clear All Cache button, however much time passes; and a call of
\* get_combined_metadata(years) served from it issues no request, raises
\* nothing and returns the singleton's rows of the given years, in order.
C19_SingletonFilteredNotRebuilt ==
    [][/\ dataset.kind = "entry" => (dataset' = dataset \/ op' = "clear_all")
       /\ ServedFromSingleton' => FilteredAnswer'
      ]_vars

\* the rows of one year were served from a cold-built dataset of two years
\* after the per-year metadata entries had expired
C19_Witness ==
    /\ ServedFromSingleton
    /\ ColdBuilt
    /\ Len(dataset.value.rows) = 2
    /\ args.years # None
    /\ args.years.set = {MinYear}
    /\ Len(ret.rows) = 1
    /\ \A y \in BuildYears : metadata_cache[y].kind = "entry"
                              /\ metadata_cache[y].age = MetadataTtl

\* C20: when get_processed_full_dataset found the local snapshot and it
\* loaded, the snapshot is what the function returns and keeps: no task
\* was submitted to the pool, get_all_years_metadata and
\* get_metadata_for_year did not run, and no metadata request was issued.
C20_FastPathSkipsPool ==
    (op = "get_combined_metadata" /\ snapshot = "loads") =>
        /\ pc \in {"cm_filter", "done"}
        /\ \A y \in BuildYears : futures[y] = NoFuture
        /\ result = <<>>
        /\ log = <<>>
        /\ computations = <<Computation("get_processed_full_dataset", <<>>)>>
        /\ dataset = Resource(DatasetOf(SnapshotRows, "snapshot"))
        /\ ~raised

C20_Witness ==
    /\ CmDone
    /\ snapshot = "loads"
    /\ args.years = None
    /\ ret = DatasetOf(SnapshotRows, "snapshot")
    /\ all_years = Absent

(***************************************************************************)
(* Properties of the judges normalizers.                                   *)
(***************************************************************************)
JudgesDone == op \in {"normalize_judges", "get_judges"} /\ pc = "done"

\* the string "A, B and C"
ABandC == <<"A", ",", " ", "B">> \o AndWord \o <<"C">>

\* an element without its leading and trailing blanks
Trimmed(item) ==
    LET keep == {i \in 1..Len(item) : item[i] \notin Whitespace}
    IN  IF keep = {} THEN <<>>
        ELSE SubSeq(item, Min(keep), Max(keep))

\* C21: either normalizer turns "A, B and C" into [A, B, C], a list of any
\* length into the list of its elements, in order, each trimmed, and NaN,
\* None, the empty string and the empty list into [], without raising.
C21_JudgesNormalized ==
    JudgesDone =>
        LET cell == args.judges
        IN  /\ ~raised
            /\ (cell.kind = "str" /\ cell.text = ABandC) =>
                  ret = JudgeList(<<<<"A">>, <<"B">>, <<"C">>>>)
            /\ cell.kind = "list" =>
                  ret = JudgeList([i \in 1..Len(cell.items) |-> Trimmed(cell.items[i])])
            /\ (cell.kind \in {"nan", "none"}
                \/ (cell.kind = "str" /\ cell.text = <<>>)) =>
                  ret = JudgeList(<<>>)

(***************************************************************************)
(* Properties of the worker pool.                                          *)
(***************************************************************************)
PoolOpen == op = "get_all_years_metadata" /\ pc = "pool"

\* the years from 1950 on, as many as the pool holds
RangeFrom1950 == {y \in 1950..2025 : y - 1950 <= MaxWorkers}

Pairs(res) == {res[i] : i \in 1..Len(res)}

\* the pool of the running call has handed every future over
PoolOver == pc = "cm_process" /\ PoolRan

\* a step writes the pair of one finished future, and nothing else, to the dict
OneWrite ==
    \E y \in BuildYears :
        /\ futures[y].state = "done"
        /\ futures'[y].state = "collected"
        /\ \A z \in BuildYears \ {y} : futures'[z] = futures[z]
        /\ result' = Append(result, [year |-> y, df |-> futures[y].value])

\* C23: while the pool runs the year-to-result map changes only by one
\* write of one finished future at a time, which leaves the pairs of the
\* other years in place; when the pool is over the map holds the pair of
\* every year whose fetch returned a frame, whatever the order in which the
\* workers finished, and one pair per year.
C23_NoLostWrite ==
    /\ [][(pc = "cm_pool" /\ result' # result) => OneWrite]_vars
    /\ [](PoolOver =>
            /\ Pairs(result) = {[year |-> y, df |-> futures[y].value] : y \in FetchedOk}
            /\ Len(result) = Cardinality(FetchedOk))

\* both years were fetched and the later year was written first
C23_Witness ==
    /\ PoolOver
    /\ Len(result) = 2
    /\ result[1].year = MinYear + 1
    /\ result[2].year = MinYear

(***************************************************************************)
(* Properties of the extraction from a shard.                              *)
(***************************************************************************)
\* an extraction from an archive has ended
Extracted ==
    /\ op \in {"fetch_pdf_for_case", "extract_pdf_from_tar"}
    /\ pc = "done"
    /\ tar_content.kind = "archive"
    /\ op = "fetch_pdf_for_case" => tar_filename # None

\* the four tests of a member name: the three suffixes, and the filename
\* with its path separator anywhere in the name
NameMatches(member_name, filename) ==
    \/ EndsWith(member_name, filename)
    \/ EndsWith(member_name, filename \o DotPdf)
    \/ EndsWith(member_name, filename \o EnPdf)
    \/ /\ \E i \in 1..Len(filename) : filename[i] = "/"
       /\ Contains(member_name, filename)

\* the positions of the matching members
Matching == {i \in 1..Len(tar_content.members) :
                NameMatches(tar_content.members[i].name, pdf_filename)}

\* C24: an extraction returns the bytes of the first member, in archive
\* order, whose name ends with the filename, with filename.pdf or with
\* filename_EN.pdf or contains the filename with its path, and returns
\* NotFound only when no member of the archive matches.
C24_FirstMatchingMember ==
    Extracted =>
        IF Matching = {} THEN ret = None
        ELSE ret = [kind |-> "bytes",
                    of |-> tar_content.members[Min(Matching)].name,
                    member |-> Min(Matching)]

(***************************************************************************)
(* Properties of the year under which the index and the shard are sought.  *)
(***************************************************************************)
\* the resolver matched the case in a candidate year other than the year of
\* the call
ResolvedElsewhere == case_meta.kind = "record" /\ case_meta.year # args.year

\* C25: every index and shard request of fetch_pdf_for_case and get_pdf_url
\* is made under the year the caller passed, also when the record was found
\* in another candidate year, and the address get_pdf_url returns is under
\* that year.
C25_CallerYearLookedUp ==
    op \in {"fetch_pdf_for_case", "get_pdf_url"} =>
        /\ \A i \in 1..Len(log) :
              log[i].kind \in {"index", "tar"} => log[i].year = args.year
        /\ ret.kind = "url" => ret.year = args.year

\* the record is of 2025, and the shard of 2021 was downloaded and searched
C25_Witness ==
    /\ op = "fetch_pdf_for_case"
    /\ pc = "done"
    /\ ResolvedElsewhere
    /\ args.year = 2021
    /\ \E i \in 1..Len(log) : log[i].kind = "tar" /\ log[i].year = 2021
    /\ ret.kind = "bytes"

(***************************************************************************)
(* Properties of cached NotFound results.                                  *)
(***************************************************************************)
\* the years of the pairs of the all-years map
YearsOf(res) == {res[i].year : i \in 1..Len(res)}

\* the metadata entry of the year is an unexpired None
NoneCached(year) ==
    /\ Unexpired(metadata_cache[year], MetadataTtl)
    /\ metadata_cache[year].value = None

\* C26: a None that get_metadata_for_year returned is stored like a frame,
\* and a read of it before the ttl has passed returns None with no request;
\* a year whose fetch gave None during the cold build is not in the
\* all-years map nor in the dataset built from it, and the map and the
\* dataset stay as they are, whatever time passes, until Clear All Cache.
C26_NotFoundIsCached ==
    /\ [][Starts("get_metadata_for_year") =>
            /\ NoneCached(args'.year) =>
                  /\ ret' = None
                  /\ log' = <<>> /\ computations' = <<>>
                  /\ metadata_cache' = metadata_cache
            /\ ret' = None => /\ metadata_cache'[args'.year].kind = "entry"
                              /\ metadata_cache'[args'.year].value = None]_vars
    /\ [][(pc = "cm_pool" /\ pc' = "cm_process") =>
            /\ all_years'.kind = "entry"
            /\ \A y \in BuildYears :
                  futures[y].value = None => y \notin YearsOf(all_years'.value)]_vars
    /\ [](ColdBuilt =>
            \A i \in 1..Len(dataset.value.rows) :
                dataset.value.rows[i].origin \in YearsOf(all_years.value))
    /\ [][all_years.kind = "entry" =>
            (all_years' = all_years \/ op' = "clear_all")]_vars
    /\ [][dataset.kind = "entry" =>
            (dataset' = dataset \/ op' = "clear_all")]_vars

\* the fetch of 1950 gave None during a cold build; its metadata entry has
\* since expired, and a later call was served from the map and the dataset,
\* which hold 1951 alone, without a pool
C26_Witness ==
    /\ CmDone
    /\ computations = <<>>
    /\ metadata_cache[MinYear].kind = "entry"
    /\ metadata_cache[MinYear].value = None
    /\ metadata_cache[MinYear].age = MetadataTtl
    /\ all_years.kind = "entry"
    /\ YearsOf(all_years.value) = {MinYear + 1}
    /\ ColdBuilt
    /\ \A i \in 1..Len(dataset.value.rows) : dataset.value.rows[i].origin = MinYear + 1
    /\ ret # None

(***************************************************************************)
(* Properties of the order of the candidate years.                         *)
(***************************************************************************)
\* the query is a part of the cell, letters compared without case
IsSubstring(cell, q) ==
    \E i \in 0..(Len(cell) - Len(q)) :
        \A j \in 1..Len(q) : LowerChar(cell[i + j]) = LowerChar(q[j])

\* the cell is the query but for case and surrounding blanks
IsExact(cell, q) ==
    LET keep == {i \in 1..Len(cell) : cell[i] \notin Whitespace}
        core == IF keep = {} THEN <<>> ELSE SubSeq(cell, Min(keep), Max(keep))
    IN  /\ Len(core) = Len(q)
        /\ \A j \in 1..Len(q) : LowerChar(core[j]) = LowerChar(q[j])

\* the cell is the query when the spaces of both are taken out
IsExactNoSpaces(cell, q) ==
    LET nospace(s) == SelectSeq(s, LAMBDA c : c # " ")
    IN  /\ Len(nospace(cell)) = Len(nospace(q))
        /\ \A j \in 1..Len(nospace(q)) :
              LowerChar(nospace(cell)[j]) = LowerChar(nospace(q)[j])

\* the rows of the frame that contain the query, none being equal to it
SubstringRows(frame, q) ==
    IF \E i \in 1..Len(frame.rows) :
          IsExact(frame.rows[i].case_id, q) \/ IsExactNoSpaces(frame.rows[i].case_id, q)
    THEN {}
    ELSE {i \in 1..Len(frame.rows) : IsSubstring(frame.rows[i].case_id, q)}

\* the first of two candidate years was fetched, its rows only contain the
\* query, and a row equal to the query can be in the second year
WeakFirstYear ==
    /\ op = "get_case_metadata"
    /\ Len(candidates) = 2
    /\ Len(log) = 1
    /\ df # None /\ df.has_case_id
    /\ SubstringRows(df, case_id_str) # {}
    /\ \E row \in Rows : IsExact(row.case_id, case_id_str)

CandidatesBuilt ==
    /\ op = "get_case_metadata"
    /\ pc \in {"gcm_loop", "done"}
    /\ case_id_str # <<>>

\* the positions of the word-bounded 19xx/20xx tokens of s
TokenPositions(s) == {i \in 1..Len(s) : YearTokenAt(s, i)}

\* the number the four digits at position i of s spell
FourDigits(s, i) ==
    DigitVal(s[i]) * 1000 + DigitVal(s[i + 1]) * 100
    + DigitVal(s[i + 2]) * 10 + DigitVal(s[i + 3])

\* C28: the candidate list of get_case_metadata is [caller year], or
\* [embedded year, caller year] when the first 19xx/20xx token of the
\* case_id is a year of 1950..2025 other than the caller's: at most two
\* entries, no year twice, the caller's year last, later tokens ignored.
C28_CandidateList ==
    CandidatesBuilt =>
        LET tokens == TokenPositions(case_id_str)
            first == IF tokens = {} THEN 0 ELSE FourDigits(case_id_str, Min(tokens))
        IN  /\ Len(candidates) \in {1, 2}
            /\ candidates[Len(candidates)] = args.year
            /\ Len(candidates) = 2 => candidates[1] # candidates[2]
            /\ IF first \in 1950..2025 /\ first # args.year
               THEN candidates = <<first, args.year>>
               ELSE candidates = <<args.year>>

\* the second token, 2025, is in range and the first, 1901, is not
C28_Witness ==
    /\ CandidatesBuilt
    /\ case_id_str = T1901 \o <<" ">> \o T2025
    /\ args.year = 2021
    /\ candidates = <<2021>>

(***************************************************************************)
(* Properties of get_pdf_location on a document with a "parts" key.        *)
(***************************************************************************)
\* the lookup has ended on a document whose "parts" key holds descriptors
V2Done ==
    /\ GplDone
    /\ index.kind = "object"
    /\ \E i \in 1..Len(index.items) :
          index.items[i].key = "parts" /\ index.items[i].value.t = "parts"

\* the descriptors under "parts"
PartsOf(idx) ==
    idx.items[CHOOSE i \in 1..Len(idx.items) : idx.items[i].key = "parts"].value.parts

\* the positions of the descriptors whose files hold a spelling of the
\* filename of the call
PartHits ==
    {i \in 1..Len(PartsOf(index)) :
        PartsOf(index)[i].files \cap Variants(args.year, args.pdf_filename) # {}}

\* C29: on a document with a "parts" key get_pdf_location returns what the
\* first descriptor whose files match carries as its name, None when that
\* descriptor has no name although a later one matches too, and None when
\* no descriptor matches although a top-level key lists the file.
C29_FirstPartDecides ==
    V2Done =>
        IF PartHits = {} THEN ret = None
        ELSE ret = PartsOf(index)[Min(PartHits)].name

\* a top-level key and two descriptors list the file; the first descriptor
\* has no name, the second has one, and the result is None
C29_Witness ==
    /\ V2Done
    /\ Len(index.items) = 2
    /\ index.items[1].value.t = "files"
    /\ index.items[1].value.files \cap Variants(args.year, args.pdf_filename) # {}
    /\ PartHits = {1, 2}
    /\ PartsOf(index)[1].name = None
    /\ PartsOf(index)[2].name # None
    /\ ret = None

(***************************************************************************)
(* Termination of the cold build.                                          *)
(***************************************************************************)
\* the place of a future on its way through the pool
Stage(f) ==
    CASE f.state = "none" -> 0 [] f.state = "queued" -> 1
      [] f.state = "running" -> 2 [] f.state = "done" -> 3
      [] f.state = "collected" -> 4

\* C30: a pool that was opened is left, with every submitted year completed
\* and handed over, whichever fetches gave None; and while the pool is open
\* no step takes a future back or away: what one worker does leaves the
\* futures of the other years where they are.
C30_ColdBuildTerminates ==
    /\ (pc = "cm_pool") ~> (pc = "cm_process")
    /\ [][(pc = "cm_pool" /\ pc' = "cm_process") =>
            \A y \in BuildYears : futures[y].state = "collected"]_vars
    /\ [][pc = "cm_pool" =>
            /\ \A y \in BuildYears : Stage(futures'[y]) >= Stage(futures[y])
            /\ Cardinality({y \in BuildYears : futures'[y] # futures[y]}) <= 1]_vars

\* the pool is over: the fetch of 1950 gave None and that of 1951 a frame
C30_Witness ==
    /\ pc = "cm_process"
    /\ \A y \in BuildYears : futures[y].state = "collected"
    /\ futures[MinYear].value = None
    /\ futures[MinYear + 1].value # None
    /\ Len(result) = 1

====
